---- MODULE Spec2Model ----
(***************************************************************************)
(* The two-file key-value store of tap (src/src/utils/tap_data_store.rs):  *)
(* Data (parents and their links), Index (parent -> byte offset), the      *)
(* DataStore facade that rewrites both files on every mutation and the     *)
(* ReadDataStore facade that reads one parent through the index.           *)
(*                                                                         *)
(* Text is modelled as a sequence of Unicode code points (a Rust String),  *)
(* file contents as a sequence of bytes.  Writing a String encodes it as   *)
(* UTF-8, fs::read_to_string decodes UTF-8, and the seeked read of         *)
(* Data::new turns every byte into one char (`*b as char`).                *)
(***************************************************************************)
EXTENDS Integers, Sequences, FiniteSets, TLC

(***************************************************************************)
(* Text literals.                                                          *)
(***************************************************************************)
Lower == <<"a","b","c","d","e","f","g","h","i","j","k","l","m",
           "n","o","p","q","r","s","t","u","v","w","x","y","z">>

Digits == <<"0","1","2","3","4","5","6","7","8","9">>

\* The code point of a character written as a token; "e'" is U+00E9.
CodePoint(c) ==
    CASE c = " "  -> 32
      [] c = "\n" -> 10
      [] c = "-"  -> 45
      [] c = "."  -> 46
      [] c = "/"  -> 47
      [] c = ":"  -> 58
      [] c = ">"  -> 62
      [] c = "|"  -> 124
      [] c = "e'" -> 233
      [] c \in {Digits[i] : i \in 1..10} -> 47 + (CHOOSE i \in 1..10 : Digits[i] = c)
      [] OTHER    -> 96 + (CHOOSE i \in 1..26 : Lower[i] = c)

\* A String literal from its characters.
Str(t) == [i \in 1..Len(t) |-> CodePoint(t[i])]

Min(S) == CHOOSE x \in S : \A y \in S : x <= y
Max(S) == CHOOSE x \in S : \A y \in S : x >= y

(***************************************************************************)
(* The str methods the store uses.  Where a value is needed more than      *)
(* once it is passed on as a parameter.                                    *)
(***************************************************************************)
\* char::is_whitespace for the code points below U+0100
IsWhitespace(c) == c \in {9, 10, 11, 12, 13, 32, 133, 160}

\* s between the first and the last of the positions `keep`
Between(s, keep) == IF keep = {} THEN <<>> ELSE SubSeq(s, Min(keep), Max(keep))

\* str::trim
Trim(s) == Between(s, {i \in 1..Len(s) : ~IsWhitespace(s[i])})

\* str::ends_with
EndsWith(s, suf) ==
    /\ Len(s) >= Len(suf)
    /\ SubSeq(s, Len(s) - Len(suf) + 1, Len(s)) = suf

\* str::contains(char)
Contains(s, c) == \E i \in 1..Len(s) : s[i] = c

\* s cut at position i, which is dropped
CutAt(s, i) == <<SubSeq(s, 1, i - 1), SubSeq(s, i + 1, Len(s))>>

\* str::split_once(char): the text before and after the first occurrence
SplitOnce(s, c) == CutAt(s, Min({j \in 1..Len(s) : s[j] = c}))

\* str::trim_end_matches(&str): removes the suffix as often as it occurs
RECURSIVE TrimEndMatches(_, _)
TrimEndMatches(s, suf) ==
    IF EndsWith(s, suf)
    THEN TrimEndMatches(SubSeq(s, 1, Len(s) - Len(suf)), suf)
    ELSE s

\* One line of str::lines without its terminator: "\r\n" ends a line too
LineOf(raw, terminated) ==
    IF terminated /\ raw # <<>> /\ raw[Len(raw)] = 13
    THEN SubSeq(raw, 1, Len(raw) - 1) ELSE raw

\* str::lines: split at "\n", no final empty line
RECURSIVE LinesFrom(_, _)
LinesTo(s, start, stop) ==
    <<LineOf(SubSeq(s, start, stop - 1), stop <= Len(s))>> \o LinesFrom(s, stop + 1)

LinesFrom(s, start) ==
    IF start > Len(s) THEN <<>>
    ELSE LinesTo(s, start, Min({i \in start..Len(s) : s[i] = 10} \cup {Len(s) + 1}))

Lines(s) == LinesFrom(s, 1)

\* Ord for str: lexicographic on code points, -1 / 0 / 1; diff holds the
\* positions at which a and b differ
CmpAt(a, b, diff) ==
    IF diff # {}
    THEN (IF a[Min(diff)] < b[Min(diff)] THEN -1 ELSE 1)
    ELSE IF Len(a) < Len(b) THEN -1
    ELSE IF Len(a) > Len(b) THEN 1 ELSE 0

StrCmp(a, b) == CmpAt(a, b, {i \in 1..Min({Len(a), Len(b)}) : a[i] # b[i]})

\* e put behind the first pos elements of rest
InsertAt(rest, e, pos) == SubSeq(rest, 1, pos) \o <<e>> \o SubSeq(rest, pos + 1, Len(rest))

\* e put behind the elements of the sorted rest that are not greater
InsertSorted(rest, e) ==
    InsertAt(rest, e, Cardinality({i \in 1..Len(rest) :
                          StrCmp(Trim(rest[i][1]), Trim(e[1])) <= 0}))

\* slice::sort_by(|a, b| a.0.trim().cmp(b.0.trim())): a stable sort of
\* pairs by the trimmed first component
RECURSIVE SortByTrimmedName(_)
SortByTrimmedName(s) ==
    IF Len(s) <= 1 THEN s
    ELSE InsertSorted(SortByTrimmedName(SubSeq(s, 1, Len(s) - 1)), s[Len(s)])

\* format!("{n}") of a usize
RECURSIVE ToDecimal(_)
ToDecimal(n) ==
    IF n < 10 THEN <<48 + n>> ELSE ToDecimal(n \div 10) \o <<48 + (n % 10)>>

RECURSIVE DigitsValue(_)
DigitsValue(s) ==
    IF s = <<>> THEN 0
    ELSE 10 * DigitsValue(SubSeq(s, 1, Len(s) - 1)) + (s[Len(s)] - 48)

\* The value of a non-empty run of decimal digits, -1 for anything else
DecimalOf(body) ==
    IF body # <<>> /\ \A i \in 1..Len(body) : body[i] \in 48..57
    THEN DigitsValue(body) ELSE -1

\* str::parse::<usize>: an optional '+' and at least one decimal digit;
\* -1 stands for the ParseIntError
ParseUsize(s) ==
    DecimalOf(IF s # <<>> /\ s[1] = 43 THEN SubSeq(s, 2, Len(s)) ELSE s)

(***************************************************************************)
(* Bytes and chars.                                                        *)
(***************************************************************************)
\* The UTF-8 encoding of one code point below U+0800
Utf8Char(c) == IF c < 128 THEN <<c>> ELSE <<192 + (c \div 64), 128 + (c % 64)>>

\* String::into_bytes / the bytes fs::write stores for a String; wide
\* holds the positions of the non-ASCII chars and the recursion steps from
\* one of them to the next
RECURSIVE Utf8Encode(_)
Utf8EncodeAt(s, wide) ==
    IF wide = {} THEN s
    ELSE SubSeq(s, 1, Min(wide) - 1) \o Utf8Char(s[Min(wide)])
         \o Utf8Encode(SubSeq(s, Min(wide) + 1, Len(s)))

Utf8Encode(s) == Utf8EncodeAt(s, {i \in 1..Len(s) : s[i] >= 128})

\* String::len: the length in bytes
ByteLen(s) == Len(Utf8Encode(s))

\* String::from_utf8 as used by fs::read_to_string; <<-1>> stands for the
\* InvalidData error
RECURSIVE Utf8DecodeFrom(_, _)
Utf8Prepend(front, rest) == IF rest = <<-1>> THEN rest ELSE front \o rest

Utf8DecodeAt(b, i, k) ==
    IF k > Len(b) THEN SubSeq(b, i, Len(b))
    ELSE IF b[k] \in 194..223 /\ k < Len(b) /\ b[k + 1] \in 128..191
    THEN Utf8Prepend(SubSeq(b, i, k - 1) \o <<(b[k] - 192) * 64 + (b[k + 1] - 128)>>,
                     Utf8DecodeFrom(b, k + 2))
    ELSE <<-1>>

Utf8DecodeFrom(b, i) ==
    Utf8DecodeAt(b, i, Min({k \in i..Len(b) : b[k] >= 128} \cup {Len(b) + 1}))

Utf8Decode(b) == Utf8DecodeFrom(b, 1)

\* buf.iter().map(|b| *b as char).collect(): every byte becomes the char
\* with that code point
BytesAsChars(b) == [i \in 1..Len(b) |-> b[i]]

(***************************************************************************)
(* Results: kind is "Ok" or a TapDataStoreErrorKind; val is the value of   *)
(* an Ok and <<>> otherwise.  "Panic" is a Rust panic (arithmetic          *)
(* overflow, unwrap of an Err).                                            *)
(***************************************************************************)
Ok(v) == [kind |-> "Ok", val |-> v]
Err(k) == [kind |-> k, val |-> <<>>]

\* The `?` after a validation: its error, or the rest of the function
Checked(v, rest) == IF v # "Ok" THEN Err(v) ELSE rest

Arrow == <<45, 62>>
Pipe == 124
Newline == <<10>>
Indent == <<32, 32>>

(***************************************************************************)
(* Utils: validate_parent, validate_link, validate_path.                   *)
(***************************************************************************)
ReservedKeywords ==
    { Str(<<"-","a">>), Str(<<"-","-","a","d","d">>),
      Str(<<"-","d">>), Str(<<"-","-","d","e","l","e","t","e">>),
      Str(<<"-","-","e","x","p","o","r","t">>),
      Str(<<"-","-","h","e","l","p">>),
      Str(<<"-","i">>), Str(<<"-","-","i","n","i","t">>),
      Str(<<"-","-","i","m","p","o","r","t">>),
      Str(<<"-","s">>), Str(<<"-","-","s","h","o","w">>),
      Str(<<"-","u">>), Str(<<"-","-","u","p","d","a","t","e">>),
      Str(<<"-","-","u","p","s","e","r","t">>),
      Str(<<"-","v">>), Str(<<"-","-","v","e","r","s","i","o","n">>),
      Str(<<"-","-","p","a","r","e","n","t","-","e","n","t","i","t","y">>),
      Str(<<"h","e","r","e">>),
      Str(<<"|">>) }

\* validate_parent with the name trimmed before the comparison
validate_parent_trimmed(parent) ==
    IF Trim(parent) \in ReservedKeywords THEN "ReservedKeyword" ELSE "Ok"

\* "Ok" or the error kind
validate_parent(parent) ==
    IF parent \in ReservedKeywords THEN "ReservedKeyword" ELSE "Ok"

validate_link(link) ==
    IF Contains(link, Pipe) THEN "ReservedKeyword" ELSE "Ok"

\* validate_path without the check of the extension
validate_path_accepting(path) == "Ok"

\* Path::extension of a path given as <<stem, extension>>, "" for a path
\* without one; the import type is always ImportType::Tap
validate_path(path) ==
    IF path[2] # "tap" THEN "InvalidFileExtension" ELSE "Ok"

(***************************************************************************)
(* Data: state is a sequence of <<parent, links>>, links a sequence of     *)
(* <<link, value>>.  The private helpers.                                  *)
(***************************************************************************)
\* parse_file::no_parent_error
no_parent_error(parent, links) == links # <<>> /\ parent = <<>>

\* parse_file::update_state_reset_temps: <<state, links>> afterwards
update_state_reset_temps(parent, links, state) ==
    IF parent # <<>> /\ links # <<>>
    THEN <<Append(state, <<parent, links>>), <<>>>>
    ELSE <<state, links>>

\* The loop of Data::parse_file over the lines from the i-th on
RECURSIVE DataParseLines(_, _, _, _, _)

\* DataParseParent without validate_parent(&temp_parent)?
DataParseParentUnchecked(lines, i, upd, new_parent) ==
    DataParseLines(lines, i + 1, upd[1], new_parent, upd[2])

\* A parent line: upd is what update_state_reset_temps left
DataParseParent(lines, i, upd, new_parent) ==
    Checked(validate_parent(new_parent),
            DataParseLines(lines, i + 1, upd[1], new_parent, upd[2]))

\* A link line split at its first '|'
DataParseLink(lines, i, lv, state, temp_parent, temp_links) ==
    Checked(validate_link(lv[1]),
            DataParseLines(lines, i + 1, state, temp_parent,
                           Append(temp_links, <<Trim(lv[1]), Trim(lv[2])>>)))

\* The body of the loop for one line
DataParseLine(lines, i, line, state, temp_parent, temp_links) ==
    IF EndsWith(line, Arrow) THEN
        IF no_parent_error(temp_parent, temp_links) THEN Err("ParseError")
        ELSE DataParseParent(lines, i,
                 update_state_reset_temps(temp_parent, temp_links, state),
                 TrimEndMatches(line, Arrow))
    ELSE IF Contains(line, Pipe) THEN
        DataParseLink(lines, i, SplitOnce(line, Pipe), state, temp_parent, temp_links)
    ELSE IF Trim(line) = <<>> THEN
        DataParseLines(lines, i + 1, state, temp_parent, temp_links)
    ELSE Err("ParseError")

DataParseLines(lines, i, state, temp_parent, temp_links) ==
    IF i > Len(lines) THEN
        IF no_parent_error(temp_parent, temp_links) THEN Err("ParseError")
        ELSE Ok(update_state_reset_temps(temp_parent, temp_links, state)[1])
    ELSE DataParseLine(lines, i, lines[i], state, temp_parent, temp_links)

\* DataParseFile that takes a text without lines for an error
DataParseFileNeedingLines(file_as_str) ==
    IF file_as_str = <<>> THEN Err("ParseError")
    ELSE DataParseLines(Lines(file_as_str), 1, <<>>, <<>>, <<>>)

\* Data::parse_file
DataParseFile(file_as_str) == DataParseLines(Lines(file_as_str), 1, <<>>, <<>>, <<>>)

\* SortLinks without links.sort_by: the links in the order of insertion
SortLinksKept(byParent) == byParent

\* The links of every parent sorted
SortLinks(byParent) ==
    [i \in 1..Len(byParent) |-> <<byParent[i][1], SortByTrimmedName(byParent[i][2])>>]

\* DataSortState without self.state.sort_by: only the links are sorted
DataSortStateKept(state) == SortLinks(state)

\* The sorting at the head of Data::state_to_file_string, which sorts
\* self.state in place
DataSortState(state) == SortLinks(SortByTrimmedName(state))

\* The text of one link
DataLinkLine(lv) == Indent \o Trim(lv[1]) \o <<Pipe>> \o Trim(lv[2]) \o Newline

\* The text of the links of one parent
RECURSIVE DataLinkLines(_)
DataLinkLines(links) ==
    IF links = <<>> THEN <<>>
    ELSE DataLinkLines(SubSeq(links, 1, Len(links) - 1)) \o DataLinkLine(links[Len(links)])

\* The text of one parent with its links
DataParentBlock(entry) == Trim(entry[1]) \o Arrow \o Newline \o DataLinkLines(entry[2])

\* The string built by Data::state_to_file_string from the sorted state
RECURSIVE DataFileString(_)
DataFileString(sorted) ==
    IF sorted = <<>> THEN <<>>
    ELSE DataFileString(SubSeq(sorted, 1, Len(sorted) - 1))
         \o DataParentBlock(sorted[Len(sorted)])

\* DataOffsets with the offset counted in chars (res.chars().count())
\* instead of bytes
DataOffsetsInChars(sorted) ==
    [i \in 1..Len(sorted) |->
        <<Trim(sorted[i][1]), Len(DataFileString(SubSeq(sorted, 1, i - 1)))>>]

\* The offsets Data::state_to_file_string returns: res.len() when the
\* parent is reached, with the trimmed parent
DataOffsets(sorted) ==
    [i \in 1..Len(sorted) |->
        <<Trim(sorted[i][1]), ByteLen(DataFileString(SubSeq(sorted, 1, i - 1)))>>]

(***************************************************************************)
(* Index: state is a sequence of <<parent, offset>>.                       *)
(***************************************************************************)
RECURSIVE IndexParseLines(_, _, _)

\* An index line split at its first '|' with its offset parsed
IndexParseEntry(lines, i, state, parent, offset_parsed) ==
    IF offset_parsed = -1 THEN Err("ParseError")
    ELSE IndexParseLines(lines, i + 1, Append(state, <<parent, offset_parsed>>))

\* The body of the loop for one line
IndexParseLine(lines, i, line, state) ==
    IF Contains(line, Pipe)
    THEN IndexParseEntry(lines, i, state, SplitOnce(line, Pipe)[1],
                         ParseUsize(SplitOnce(line, Pipe)[2]))
    ELSE Err("ParseError")

\* The loop of Index::parse_file
IndexParseLines(lines, i, state) ==
    IF i > Len(lines) THEN Ok(state)
    ELSE IndexParseLine(lines, i, lines[i], state)

\* Index::parse_file
IndexParseFile(file_as_str) == IndexParseLines(Lines(file_as_str), 1, <<>>)

\* IndexSortState with the comparison turned round: b before a
IndexSortStateDescending(state) ==
    [i \in 1..Len(state) |-> SortByTrimmedName(state)[Len(state) + 1 - i]]

\* The sorting at the head of Index::state_to_file_string (in place)
IndexSortState(state) == SortByTrimmedName(state)

\* The text of one index entry
IndexLine(po) == Trim(po[1]) \o <<Pipe>> \o ToDecimal(po[2]) \o Newline

\* The string built by Index::state_to_file_string from the sorted state
RECURSIVE IndexFileString(_)
IndexFileString(sorted) ==
    IF sorted = <<>> THEN <<>>
    ELSE IndexFileString(SubSeq(sorted, 1, Len(sorted) - 1)) \o IndexLine(sorted[Len(sorted)])

\* OffsetAndLength with the next entry's offset in place of the difference
OffsetAndNextOffset(state, elem) ==
    IF elem = Len(state) THEN Ok(<<state[elem][2], 0>>)
    ELSE Ok(<<state[elem][2], state[elem + 1][2]>>)

\* The offset and length of the entry at position elem; a later entry with
\* a smaller offset makes the usize subtraction overflow: a panic with
\* overflow checks, and without them a wrapped length whose buffer
\* Data::new cannot allocate, so the constructor ends in a panic either way
OffsetAndLength(state, elem) ==
    IF elem = Len(state) THEN Ok(<<state[elem][2], 0>>)
    ELSE IF state[elem + 1][2] < state[elem][2] THEN Err("Panic")
    ELSE Ok(<<state[elem][2], state[elem + 1][2] - state[elem][2]>>)

\* The first of the positions hits, or the error of a missing parent
FirstHit(state, hits) ==
    IF hits = {} THEN Err("ParseError") ELSE OffsetAndLength(state, Min(hits))

\* Index::find_parent_offset_and_length
find_parent_offset_and_length(state, parent) ==
    FirstHit(state, {i \in 1..Len(state) : Trim(state[i][1]) = Trim(parent)})

(***************************************************************************)
(* Options, paths and the file system.  A path is <<file stem, extension>>;*)
(* a file is absent or holds bytes.                                        *)
(***************************************************************************)
\* Option::None for an optional String or offset pair
None == <<-1>>

\* get_parent_dir_of_tap().join(".tap_data") and .join(".tap_index")
DefaultDataPath == <<".tap_data", "">>
DefaultIndexPath == <<".tap_index", "">>

NoFile == [exists |-> FALSE, bytes |-> <<>>]
File(b) == [exists |-> TRUE, bytes |-> b]

\* The String of decoded bytes, or the error of invalid UTF-8
FromUtf8(decoded) == IF decoded = <<-1>> THEN Err("FileReadFailed") ELSE Ok(decoded)

\* fs::read_to_string
ReadToString(file) ==
    IF ~file.exists THEN Err("FileReadFailed") ELSE FromUtf8(Utf8Decode(file.bytes))

\* read_exact of n bytes behind the offset, each byte turned into a char
ReadExact(bytes, offset, n) ==
    IF offset + n > Len(bytes) THEN Err("FileReadFailed")
    ELSE Ok(BytesAsChars(SubSeq(bytes, offset + 1, offset + n)))

\* File::seek, the buffer of `length` bytes (file length minus offset when
\* length is 0) and read_exact; the u64 subtraction overflows when the
\* offset lies behind the end of the file (a panic with overflow checks,
\* a buffer that cannot be allocated without them)
SeekedRead(file, offset, length) ==
    IF length = 0 /\ offset > Len(file.bytes) THEN Err("Panic")
    ELSE ReadExact(file.bytes, offset,
                   IF length = 0 THEN Len(file.bytes) - offset ELSE length)

\* What a constructor returns for the outcome of parsing: [kind, state, fs]
Constructed(parsed, fsys) == [kind |-> parsed.kind, state |-> parsed.val, fs |-> fsys]

\* What a constructor returns after creating the missing file
Created(fsys, path) ==
    [kind |-> "Ok", state |-> <<>>, fs |-> [fsys EXCEPT ![path] = File(<<>>)]]

(***************************************************************************)
(* Data, publicly exposed.  Each operation yields Ok(new state) or Err.    *)
(***************************************************************************)
\* The text Data::new read, parsed
DataParseRead(text) == IF text.kind = "Ok" THEN DataParseFile(text.val) ELSE text

\* Data::new: [kind, state, fs]; creates the file when it is missing
DataNew(fsys, path, index_offset_length) ==
    IF fsys[path].exists
    THEN Constructed(DataParseRead(
             IF index_offset_length # None
             THEN SeekedRead(fsys[path], index_offset_length[1], index_offset_length[2])
             ELSE ReadToString(fsys[path])), fsys)
    ELSE Created(fsys, path)

\* Iterator::position: the first of the positions hits, 0 when none
Position(hits) == IF hits = {} THEN 0 ELSE Min(hits)

\* state.iter().position(|(p, _)| p == parent)
PositionExact(state, parent) ==
    Position({i \in 1..Len(state) : state[i][1] = parent})

\* state.iter().find(|(p, _)| p.trim() == parent)
PositionTrimmed(state, parent) ==
    Position({i \in 1..Len(state) : Trim(state[i][1]) = parent})

\* links.iter().position(|(l, _)| l.trim() == link)
LinkPosition(links, link) ==
    Position({j \in 1..Len(links) : Trim(links[j][1]) = link})

RemoveAt(s, i) == SubSeq(s, 1, i - 1) \o SubSeq(s, i + 1, Len(s))

\* (link.trim().to_string(), value.trim().to_string())
NewLink(link, value) == <<Trim(link), Trim(value)>>

\* AddLinkAt with the link looked for in the links of every parent
AddLinkAtAnyParent(state, i, parent, link, value) ==
    IF \E k \in 1..Len(state) : LinkPosition(state[k][2], link) # 0
    THEN Err("LinkAlreadyExists")
    ELSE IF i # 0 THEN Ok([state EXCEPT ![i][2] = Append(@, NewLink(link, value))])
    ELSE Ok(Append(state, <<parent, <<NewLink(link, value)>> >>))

\* The branches of Data::add_link for the position i of the parent
AddLinkAt(state, i, parent, link, value) ==
    IF i # 0 THEN
        IF LinkPosition(state[i][2], link) # 0 THEN Err("LinkAlreadyExists")
        ELSE Ok([state EXCEPT ![i][2] = Append(@, NewLink(link, value))])
    ELSE Ok(Append(state, <<parent, <<NewLink(link, value)>> >>))

\* Data::add_link
DataAddLink(state, parent, link, value) ==
    Checked(validate_parent(parent),
    Checked(validate_link(link),
            AddLinkAt(state, PositionExact(state, parent), parent, link, value)))

\* The link at position j of links, 0 standing for no such link
GetLinkAt(links, j) == IF j # 0 THEN Ok(<<links[j]>>) ELSE Err("LinkNotFound")

\* The branches of Data::get for the position i of the parent
GetAt(state, i, link) ==
    IF i = 0 THEN Err("ParentEntityNotFound")
    ELSE IF link # None
    THEN Checked(validate_link(link),
                 GetLinkAt(state[i][2], LinkPosition(state[i][2], Trim(link))))
    ELSE Ok(state[i][2])

\* Data::get
DataGet(state, parent, link) ==
    Checked(validate_parent(parent),
            GetAt(state, PositionTrimmed(state, parent), link))

\* RemoveLinkAt without `if links.is_empty() { self.state.remove(..) }`
RemoveLinkAtKeepingParent(state, parent_idx, index) ==
    IF index = 0 THEN Err("LinkNotFound")
    ELSE Ok([state EXCEPT ![parent_idx][2] = RemoveAt(@, index)])

\* The branches of Data::remove for the position index of the link
RemoveLinkAt(state, parent_idx, index) ==
    IF index = 0 THEN Err("LinkNotFound")
    ELSE IF Len(state[parent_idx][2]) = 1 THEN Ok(RemoveAt(state, parent_idx))
    ELSE Ok([state EXCEPT ![parent_idx][2] = RemoveAt(@, index)])

\* The branches of Data::remove for the position parent_idx of the parent
RemoveFrom(state, parent_idx, link) ==
    IF parent_idx = 0 THEN Err("ParentEntityNotFound")
    ELSE IF link # None
    THEN RemoveLinkAt(state, parent_idx, LinkPosition(state[parent_idx][2], link))
    ELSE Ok(RemoveAt(state, parent_idx))

\* Data::remove
DataRemove(state, parent, link) ==
    Checked(validate_parent(parent),
    Checked(IF link # None THEN validate_link(link) ELSE "Ok",
            RemoveFrom(state, PositionExact(state, parent), link)))

\* The branches of Data::upsert_link for the position j of the link
UpsertLinkAt(state, i, j, link, value) ==
    IF j # 0 THEN Ok([state EXCEPT ![i][2][j][2] = Trim(value)])
    ELSE Ok([state EXCEPT ![i][2] = Append(@, NewLink(link, value))])

\* The branches of Data::upsert_link for the position i of the parent
UpsertAt(state, i, parent, link, value) ==
    IF i # 0 THEN UpsertLinkAt(state, i, LinkPosition(state[i][2], link), link, value)
    ELSE Ok(Append(state, <<parent, <<NewLink(link, value)>> >>))

\* Data::upsert_link
DataUpsertLink(state, parent, link, value) ==
    Checked(validate_parent(parent),
    Checked(validate_link(link),
            UpsertAt(state, PositionExact(state, parent), parent, link, value)))

\* The <<parent, link, value>> records of one parsed parent
RecordsOf(e) == [j \in 1..Len(e[2]) |-> <<e[1], e[2][j][1], e[2][j][2]>>]

\* The parsed state of an import source as the list of its records, in
\* the order of the two nested loops
RECURSIVE ImportRecords(_)
ImportRecords(parsed) ==
    IF parsed = <<>> THEN <<>>
    ELSE ImportRecords(SubSeq(parsed, 1, Len(parsed) - 1)) \o RecordsOf(parsed[Len(parsed)])

\* Result::unwrap: a panic on Err
Unwrap(res) == IF res.kind # "Ok" THEN Err("Panic") ELSE res

\* One turn of the loop: self.upsert_link(&parent, &link, &value).unwrap()
ImportStep(before, r) ==
    IF before.kind # "Ok" THEN before
    ELSE Unwrap(DataUpsertLink(before.val, r[1], r[2], r[3]))

\* The loop of Data::import
RECURSIVE ImportFold(_, _)
ImportFold(state, records) ==
    IF records = <<>> THEN Ok(state)
    ELSE ImportStep(ImportFold(state, SubSeq(records, 1, Len(records) - 1)),
                    records[Len(records)])

\* Data::import behind parse_file
ImportParsed(state, parsed) ==
    IF parsed.kind # "Ok" THEN parsed ELSE ImportFold(state, ImportRecords(parsed.val))

\* Data::import behind read_to_string
ImportRead(state, text) ==
    IF text.kind # "Ok" THEN text ELSE ImportParsed(state, DataParseFile(text.val))

\* Data::import with ImportType::Tap
DataImport(state, fsys, path) ==
    Checked(validate_path(path),
            IF ~fsys[path].exists THEN Err("FileOpenFailed")
            ELSE ImportRead(state, ReadToString(fsys[path])))

(***************************************************************************)
(* Index, publicly exposed.                                                *)
(***************************************************************************)
\* The text Index::new read, parsed
IndexParseRead(text) == IF text.kind = "Ok" THEN IndexParseFile(text.val) ELSE text

\* Index::new: [kind, state, fs]
IndexNew(fsys, path) ==
    IF fsys[path].exists
    THEN Constructed(IndexParseRead(ReadToString(fsys[path])), fsys)
    ELSE Created(fsys, path)

\* Index::parents
IndexParents(state) == [i \in 1..Len(state) |-> state[i][1]]

(***************************************************************************)
(* DataStore and ReadDataStore.  A store is                                *)
(*   [data |-> [path, state], index |-> [path, state]].                    *)
(***************************************************************************)
\* The paths Data::new and Index::new use for the constructor's argument
\* (an Option<PathBuf>: <<>> is None, <<p>> is Some(p))
DataPathOf(path) == IF path = <<>> THEN DefaultDataPath ELSE path[1]
IndexPathOf(path) == IF path = <<>> THEN DefaultIndexPath ELSE path[1]

\* What a store's constructor returns when its second load has returned
\* `second`: [kind, ds, fs]
StoreOf(second, path, data_state, index_state) ==
    IF second.kind # "Ok" THEN [kind |-> second.kind, ds |-> <<>>, fs |-> second.fs]
    ELSE [kind |-> "Ok",
          ds |-> [data |-> [path |-> DataPathOf(path), state |-> data_state],
                  index |-> [path |-> IndexPathOf(path), state |-> index_state]],
          fs |-> second.fs]

\* DataStore::new behind Data::new
DataStoreNewIndex(d, x, path) == StoreOf(x, path, d.state, x.state)

DataStoreNewData(d, path) ==
    IF d.kind # "Ok" THEN [kind |-> d.kind, ds |-> <<>>, fs |-> d.fs]
    ELSE DataStoreNewIndex(d, IndexNew(d.fs, IndexPathOf(path)), path)

\* DataStore::new: Data::new, then Index::new
DataStoreNew(fsys, path) == DataStoreNewData(DataNew(fsys, DataPathOf(path), None), path)

\* DataSaved with the text appended to the file instead of replacing it
DataSavedAppending(data, fsys, sorted) ==
    [data |-> [data EXCEPT !.state = sorted],
     fs |-> [fsys EXCEPT ![data.path] =
                 File(fsys[data.path].bytes \o Utf8Encode(DataFileString(sorted)))],
     offsets |-> DataOffsets(sorted)]

\* What Data::save_to_file leaves for the sorted state
DataSaved(data, fsys, sorted) ==
    [data |-> [data EXCEPT !.state = sorted],
     fs |-> [fsys EXCEPT ![data.path] = File(Utf8Encode(DataFileString(sorted)))],
     offsets |-> DataOffsets(sorted)]

\* Data::save_to_file: the state sorted in place, the file written, the
\* offsets returned
DataSaveToFile(data, fsys) == DataSaved(data, fsys, DataSortState(data.state))

\* IndexUpdate that edits in place: the new offsets, and the old entries of
\* parents the new offsets do not name
IndexUpdateMerging(index, offsets) ==
    [index EXCEPT !.state =
        offsets \o SelectSeq(@, LAMBDA e : \A i \in 1..Len(offsets) : offsets[i][1] # e[1])]

\* IndexUpdate that leaves the entries as they were
IndexUpdateSkipped(index, offsets) == index

\* Index::update
IndexUpdate(index, offsets) == [index EXCEPT !.state = offsets]

\* What Index::save_to_file leaves for the sorted state
IndexSaved(index, fsys, sorted) ==
    [index |-> [index EXCEPT !.state = sorted],
     fs |-> [fsys EXCEPT ![index.path] = File(Utf8Encode(IndexFileString(sorted)))]]

\* Index::save_to_file
IndexSaveToFile(index, fsys) == IndexSaved(index, fsys, IndexSortState(index.state))

\* The store and the files once both files are saved
Committed(data, isaved) ==
    [kind |-> "Ok", ds |-> [data |-> data, index |-> isaved.index], fs |-> isaved.fs]

\* self.index.update(offsets); self.index.save_to_file()
CommitIndex(saved, index) ==
    Committed(saved.data, IndexSaveToFile(IndexUpdate(index, saved.offsets), saved.fs))

\* DataStoreCommit with the data file opened for writing, and so emptied,
\* before the result of the Data operation is looked at
DataStoreCommitTruncating(store, fsys, mutated) ==
    IF mutated.kind # "Ok"
    THEN [kind |-> mutated.kind, ds |-> store,
          fs |-> [fsys EXCEPT ![store.data.path] = File(<<>>)]]
    ELSE CommitIndex(DataSaveToFile([store.data EXCEPT !.state = mutated.val], fsys),
                     store.index)

\* The tail shared by DataStore::add_link, delete, upsert_link and import
\* once the Data operation has returned `mutated`: on Ok save the data,
\* update the index and save it; on Err return it
DataStoreCommit(store, fsys, mutated) ==
    IF mutated.kind # "Ok" THEN [kind |-> mutated.kind, ds |-> store, fs |-> fsys]
    ELSE CommitIndex(DataSaveToFile([store.data EXCEPT !.state = mutated.val], fsys),
                     store.index)

\* DataStore::add_link
DataStoreAddLink(store, fsys, parent, link, value) ==
    DataStoreCommit(store, fsys, DataAddLink(store.data.state, parent, link, value))

\* DataStore::delete
DataStoreDelete(store, fsys, parent, link) ==
    DataStoreCommit(store, fsys, DataRemove(store.data.state, parent, link))

\* DataStore::upsert_link
DataStoreUpsertLink(store, fsys, parent, link, value) ==
    DataStoreCommit(store, fsys, DataUpsertLink(store.data.state, parent, link, value))

\* DataStore::import
DataStoreImport(store, fsys, path) ==
    DataStoreCommit(store, fsys, DataImport(store.data.state, fsys, path))

\* DataStore::read_parent_slow
read_parent_slow(store, parent) == DataGet(store.data.state, parent, None)

\* ReadDataStore::new behind Data::new
ReadDataStoreOf(d, x, path) == StoreOf(d, path, d.state, x.state)

\* ReadDataStore::new behind find_parent_offset_and_length
ReadDataStoreNewData(x, iol, path) ==
    IF iol.kind # "Ok" THEN [kind |-> iol.kind, ds |-> <<>>, fs |-> x.fs]
    ELSE ReadDataStoreOf(DataNew(x.fs, DataPathOf(path), iol.val), x, path)

\* ReadDataStore::new behind Index::new
ReadDataStoreNewIndex(x, path, parent) ==
    IF x.kind # "Ok" THEN [kind |-> x.kind, ds |-> <<>>, fs |-> x.fs]
    ELSE ReadDataStoreNewData(x, find_parent_offset_and_length(x.state, parent), path)

\* ReadDataStore::new: Index::new, the offset of the parent, then
\* Data::new with it
ReadDataStoreNew(fsys, path, parent) ==
    ReadDataStoreNewIndex(IndexNew(fsys, IndexPathOf(path)), path, parent)

\* ReadDataStore::read_parent
read_parent(rds, parent) == DataGet(rds.data.state, parent, None)

\* links[0].clone() of the links Data::get returned
FirstLink(got) == IF got.kind = "Ok" THEN Ok(got.val[1]) ELSE got

\* ReadDataStore::read_link
read_link(rds, parent, link) == FirstLink(DataGet(rds.data.state, parent, link))

\* links.iter().map(|(l, _)| l.clone()).collect()
LinkNames(got) ==
    IF got.kind = "Ok" THEN Ok([j \in 1..Len(got.val) |-> got.val[j][1]]) ELSE got

\* ReadDataStore::links
read_links(rds, parent) == LinkNames(read_parent(rds, parent))

\* The read of the parent from a ReadDataStore::new that returned `made`
ReadFrom(made, parent) ==
    IF made.kind # "Ok" THEN Err(made.kind) ELSE read_parent(made.ds, parent)

\* ReadDataStore::new(path, parent)?.read_parent(parent)
IndexedReadParent(fsys, path, parent) ==
    ReadFrom(ReadDataStoreNew(fsys, path, parent), parent)

(***************************************************************************)
(* The arguments the callers pass.  A run draws its arguments from one     *)
(* family: names that differ in surrounding whitespace (link names in      *)
(* "names", parent names in "twins"), reserved tokens, non-ASCII text,     *)
(* text that contains the file formats' own separators, and the literal    *)
(* scenario of the documentation.                                          *)
(***************************************************************************)
Families == {"names", "twins", "reserved", "bytes", "markup", "scenario"}

SearchEngines == Str(<<"s","e","a","r","c","h","-","e","n","g","i","n","e","s">>)
Repo == Str(<<"r","e","p","o">>)
Google == Str(<<"g","o","o","g","l","e">>)
Yahoo == Str(<<"y","a","h","o","o">>)
Gh == Str(<<"g","h">>)
GoogleUrl == Str(<<"h","t","t","p","s",":","/","/","g","o","o","g","l","e",".","c","o","m">>)
YahooUrl == Str(<<"h","t","t","p","s",":","/","/","y","a","h","o","o",".","c","o","m">>)
GithubUrl == Str(<<"h","t","t","p","s",":","/","/","g","i","t","h","u","b",".","c","o","m">>)

\* The three add_link calls of the scenario, in order
ScenarioCalls ==
    << <<SearchEngines, Google, GoogleUrl>>,
       <<SearchEngines, Yahoo, YahooUrl>>,
       <<Repo, Gh, GithubUrl>> >>

ParentArgs(f) ==
    CASE f = "names"    -> {Str(<<"p">>), Str(<<"p"," ">>)}
      [] f = "twins"    -> {Str(<<"p">>), Str(<<"p"," ">>)}
      [] f = "reserved" -> {Str(<<"h","e","r","e">>), Str(<<"h","e","r","e"," ">>), Str(<<"p">>)}
      [] f = "bytes"    -> {Str(<<"p">>), Str(<<"q">>)}
      [] f = "markup"   -> {Str(<<"p">>), Str(<<"p","|","q">>), Str(<<>>)}
      [] f = "scenario" -> {SearchEngines, Repo}

LinkArgs(f) ==
    CASE f = "names"    -> {Str(<<"a">>), Str(<<" ","a">>)}
      [] f = "twins"    -> {Str(<<"a">>), Str(<<"b">>)}
      [] f = "reserved" -> {Str(<<"a">>), Str(<<"a","|","b">>)}
      [] f = "bytes"    -> {Str(<<"a">>), Str(<<"b">>)}
      [] f = "markup"   -> {Str(<<"a">>)}
      [] f = "scenario" -> {Google, Yahoo, Gh}

ValueArgs(f) ==
    CASE f = "names"    -> {Str(<<"1">>), Str(<<"2">>)}
      [] f = "twins"    -> {Str(<<"1">>)}
      [] f = "reserved" -> {Str(<<"1">>)}
      [] f = "bytes"    -> {Str(<<"1">>), Str(<<"e'">>)}
      [] f = "markup"   -> {Str(<<"1">>), Str(<<"-",">">>)}
      [] f = "scenario" -> {GoogleUrl, YahooUrl, GithubUrl, Str(<<"x">>)}

\* The <<parent, link, value>> arguments of add_link and upsert_link
LinkCalls(f) ==
    IF f = "scenario"
    THEN {ScenarioCalls[i] : i \in 1..3} \cup {<<SearchEngines, Google, Str(<<"x">>)>>}
    ELSE ParentArgs(f) \X LinkArgs(f) \X ValueArgs(f)

\* The import sources on disk
TapSource == <<"links", "tap">>
TextSource == <<"links", "txt">>
MissingSource == <<"missing", "tap">>
MissingText == <<"missing", "txt">>
BareSource == <<"links", "">>
ImportPaths == {TapSource, TextSource, MissingSource, MissingText, BareSource}
Paths == {DefaultDataPath, DefaultIndexPath} \cup ImportPaths

\* The text of the import source of a family
ImportText(f) ==
    CASE f = "names"    -> Str(<<"p"," ","-",">","\n"," ","a"," ","|","2","\n","q","-",">","\n","b","|","1","\n">>)
      [] f = "twins"    -> Str(<<"p","-",">","\n","b","|","2","\n">>)
      [] f = "reserved" -> Str(<<"p","-",">","\n","a","|","1","\n","h","e","r","e","-",">","\n","a","|","1","\n">>)
      [] f = "bytes"    -> Str(<<"a","|","1","\n">>)
      [] f = "markup"   -> Str(<<"p","-",">","\n","\n","a","|","b","|","1","\n">>)
      [] f = "scenario" -> Str(<<"r","e","p","o","-",">","\n","g","h","|","x","\n">>)

\* The total number of links a state holds
RECURSIVE LinkCount(_)
LinkCount(state) ==
    IF state = <<>> THEN 0
    ELSE LinkCount(SubSeq(state, 1, Len(state) - 1)) + Len(state[Len(state)][2])

\* The model explores stores of at most MaxLinks links
MaxLinks == 3

(***************************************************************************)
(* The state machine: one DataStore, the files, and the last call.         *)
(***************************************************************************)
VARIABLES
    fs,       \* the files: path -> [exists, bytes]
    ds,       \* the DataStore the process holds
    family,   \* the family the callers' arguments are drawn from
    last,     \* the last call: [op, parent, link, value, path, kind, out]
    step,     \* scenario calls done so far on the initially empty store, -1 once left
    proc,     \* the processes that run a mutation step by step: [pc, ds, call, offsets, done]
    writes    \* the file writes of those processes in order: <<process, "data" or "index">>

vars == <<fs, ds, family, last, step, proc, writes>>

\* No DataStore has been constructed
NoStore ==
    [data |-> [path |-> <<>>, state |-> <<>>], index |-> [path |-> <<>>, state |-> <<>>]]

\* The processes whose mutations are followed write by write
Procs == {1, 2}

\* A process that has not started
NotStarted == [pc |-> "idle", ds |-> NoStore, call |-> <<>>, offsets |-> <<>>, done |-> 0]

\* No process is followed write by write: every call runs to its end
Whole == proc = [p \in Procs |-> NotStarted] /\ writes = <<>>

Call(op, parent, link, value, path, kind, out) ==
    [op |-> op, parent |-> parent, link |-> link, value |-> value,
     path |-> path, kind |-> kind, out |-> out]

\* The files before the first command: no store file, the import sources
Disk(f) ==
    [p \in Paths |->
        IF p \in {TapSource, TextSource} THEN File(Utf8Encode(ImportText(f))) ELSE NoFile]

\* The store and the files DataStore::new left
Opened(made) == fs = made.fs /\ ds = made.ds

\* No store file exists, the import sources do; DataStore::new(None) has run
Init ==
    /\ family \in Families
    /\ Opened(DataStoreNew(Disk(family), <<>>))
    /\ last = Call("new", None, None, None, <<>>, "Ok", <<>>)
    /\ step = 0
    /\ Whole

\* The effect of a mutation's result r on the store, the files and `last`
Apply(r, op, parent, link, value, path) ==
    /\ LinkCount(r.ds.data.state) <= MaxLinks
    /\ ds' = r.ds
    /\ fs' = r.fs
    /\ last' = Call(op, parent, link, value, path, r.kind, <<>>)
    /\ UNCHANGED <<family, proc, writes>>

AddLink ==
    \E c \in LinkCalls(family) :
        /\ Apply(DataStoreAddLink(ds, fs, c[1], c[2], c[3]), "add_link", c[1], c[2], c[3], <<>>)
        /\ step' = IF step \in 0..2 /\ c = ScenarioCalls[step + 1] THEN step + 1 ELSE -1

UpsertLink ==
    \E c \in LinkCalls(family) :
        /\ Apply(DataStoreUpsertLink(ds, fs, c[1], c[2], c[3]), "upsert_link", c[1], c[2], c[3], <<>>)
        /\ step' = -1

Delete ==
    \E parent \in ParentArgs(family), link \in LinkArgs(family) \cup {None} :
        /\ Apply(DataStoreDelete(ds, fs, parent, link), "delete", parent, link, None, <<>>)
        /\ step' = -1

Import ==
    \E path \in ImportPaths :
        /\ Apply(DataStoreImport(ds, fs, path), "import", None, None, None, <<path>>)
        /\ step' = -1

\* The effect of a DataStore::new that returned `made`; a command whose
\* store fails to load ends without one
Reopened(made) ==
    /\ ds' = IF made.kind = "Ok" THEN made.ds ELSE ds
    /\ fs' = made.fs
    /\ last' = Call("new", None, None, None, <<>>, made.kind, <<>>)
    /\ UNCHANGED <<family, step, proc, writes>>

\* A later command: DataStore::new(None) on the files as they are
Reopen == Reopened(DataStoreNew(fs, <<>>))

\* The effect of a read that built `made` and returned `got`
ReadDone(made, got, parent) ==
    /\ fs' = made.fs
    /\ last' = Call("read_parent", parent, None, None, <<>>, got.kind, got.val)
    /\ UNCHANGED <<ds, family, step, proc, writes>>

ReadWith(made, parent) == ReadDone(made, ReadFrom(made, parent), parent)

\* ReadDataStore::new(None, parent) and read_parent(parent)
ReadParent ==
    \E parent \in ParentArgs(family) :
        ReadWith(ReadDataStoreNew(fs, <<>>, parent), parent)

Next == AddLink \/ UpsertLink \/ Delete \/ Import \/ Reopen \/ ReadParent

Spec == Init /\ [][Next]_vars

(***************************************************************************)
(* The commands from a disk on which no command has run yet: neither store *)
(* file exists, and a command that reads (ParentEntity::run) may come      *)
(* before any command that constructs a DataStore.                         *)
(***************************************************************************)
Loaded == ds # NoStore

Unopened ==
    /\ family \in Families
    /\ fs = Disk(family)
    /\ ds = NoStore
    /\ last = Call("none", None, None, None, <<>>, "Ok", <<>>)
    /\ step = 0
    /\ Whole

\* A mutation needs the DataStore of its command; DataStore::new and
\* ReadDataStore::new run on the files as they are
CommandNext ==
    \/ Loaded /\ (AddLink \/ UpsertLink \/ Delete \/ Import)
    \/ Reopen
    \/ ReadParent

Commands == Unopened /\ [][CommandNext]_vars

(***************************************************************************)
(* Loading a data file of any text: the data file is a text file that      *)
(* DataStore::new parses whatever wrote it (the tests of parse_file hand   *)
(* it texts the store never writes).  The file holds up to MaxLines of the *)
(* lines below, each ended by "\n".                                        *)
(***************************************************************************)
TextLines ==
    {Str(<<"p","-",">">>), Str(<<"-",">">>), Str(<<"h","e","r","e","-",">">>),
     Str(<<"a","|","1">>), Str(<<"a","|","-",">">>), Str(<<" ","a","|","b","|","1">>),
     Str(<<"x">>), Str(<<>>), Str(<<" ">>)}

MaxLines == 3

RECURSIVE Joined(_)
\* The text of the lines ls
Joined(ls) ==
    IF ls = <<>> THEN <<>>
    ELSE Joined(SubSeq(ls, 1, Len(ls) - 1)) \o ls[Len(ls)] \o Newline

Texts == {Joined(ls) : ls \in UNION {[1..n -> TextLines] : n \in 0..MaxLines}}

\* A data file of some text and no index file; no DataStore constructed
WrittenByHand ==
    /\ family = "markup"
    /\ \E t \in Texts : fs = [Disk(family) EXCEPT ![DefaultDataPath] = File(Utf8Encode(t))]
    /\ ds = NoStore
    /\ last = Call("none", None, None, None, <<>>, "Ok", <<>>)
    /\ step = 0
    /\ Whole

\* DataStore::new(None) on the file
Parsing == WrittenByHand /\ [][Reopen]_vars

(***************************************************************************)
(* A mutation write by write.  DataStore::add_link, delete, upsert_link    *)
(* and import run the Data operation, then self.data.save_to_file()?, then *)
(* self.index.update(..) and self.index.save_to_file()?.  A process calls  *)
(* DataStore::new(None) and then mutates; between its two writes other     *)
(* processes may run and the process may be stopped; fs::write may fail.   *)
(***************************************************************************)
\* The mutations that reach their data-file write, over all processes
MaxMutations == 2

ParentP == Str(<<"p">>)
ParentQ == Str(<<"q">>)

\* The calls of the processes: <<op, parent, link, value, path>>
ProcessCalls ==
    {<<"add_link", ParentP, Str(<<"a">>), Str(<<"1">>), <<>>>>,
     <<"add_link", ParentQ, Str(<<"a">>), Str(<<"1">>), <<>>>>,
     <<"upsert_link", ParentP, Str(<<"b">>), Str(<<"1">>), <<>>>>,
     <<"delete", ParentP, None, None, <<>>>>,
     <<"import", None, None, None, <<TapSource>>>>}

\* The data-file writes so far
DataWrites == Len(SelectSeq(writes, LAMBDA w : w[2] = "data"))

CallOf(c, kind) == Call(c[1], c[2], c[3], c[4], c[5], kind, <<>>)

\* self.data.add_link / remove / upsert_link / import of the call c
DataOp(c, state, fsys) ==
    CASE c[1] = "add_link"    -> DataAddLink(state, c[2], c[3], c[4])
      [] c[1] = "upsert_link" -> DataUpsertLink(state, c[2], c[3], c[4])
      [] c[1] = "delete"      -> DataRemove(state, c[2], c[3])
      [] c[1] = "import"      -> DataImport(state, fsys, c[5][1])

\* DataStore::new(None) of process p returned `made`
Opening(p, made) ==
    /\ fs' = made.fs
    /\ proc' = [proc EXCEPT ![p] = IF made.kind = "Ok"
                                   THEN [proc[p] EXCEPT !.pc = "loaded", !.ds = made.ds]
                                   ELSE [proc[p] EXCEPT !.pc = "failed"]]
    /\ last' = Call("new", None, None, None, <<>>, made.kind, <<>>)
    /\ UNCHANGED <<ds, family, step, writes>>

Open(p) == proc[p].pc = "idle" /\ Opening(p, DataStoreNew(fs, <<>>))

\* The Data operation returned an error, which `?` returns to the caller
Returned(c, kind) ==
    /\ last' = CallOf(c, kind)
    /\ UNCHANGED <<fs, ds, family, step, proc, writes>>

\* DataWritten with the index saved in the same step and once more later
DataAndIndexWritten(p, c, saved) ==
    /\ LinkCount(saved.data.state) <= MaxLinks
    /\ fs' = IndexSaveToFile(IndexUpdate(proc[p].ds.index, saved.offsets), saved.fs).fs
    /\ proc' = [proc EXCEPT ![p] = [pc |-> "data_saved",
                                    ds |-> [proc[p].ds EXCEPT !.data = saved.data],
                                    call |-> c, offsets |-> saved.offsets,
                                    done |-> proc[p].done]]
    /\ writes' = writes \o <<<<p, "data">>, <<p, "index">>>>
    /\ UNCHANGED <<ds, family, last, step>>

\* self.data.save_to_file() has written the data file and returned the
\* offsets; the index is not yet updated
DataWritten(p, c, saved) ==
    /\ LinkCount(saved.data.state) <= MaxLinks
    /\ fs' = saved.fs
    /\ proc' = [proc EXCEPT ![p] = [pc |-> "data_saved",
                                    ds |-> [proc[p].ds EXCEPT !.data = saved.data],
                                    call |-> c, offsets |-> saved.offsets,
                                    done |-> proc[p].done]]
    /\ writes' = Append(writes, <<p, "data">>)
    /\ UNCHANGED <<ds, family, last, step>>

Mutating(p, c, mutated) ==
    IF mutated.kind # "Ok" THEN Returned(c, mutated.kind)
    ELSE DataWritten(p, c, DataSaveToFile([proc[p].ds.data EXCEPT !.state = mutated.val], fs))

\* A mutation up to its data-file write
Begin(p) ==
    /\ proc[p].pc = "loaded"
    /\ DataWrites < MaxMutations
    /\ \E c \in ProcessCalls : Mutating(p, c, DataOp(c, proc[p].ds.data.state, fs))

\* AfterFailedWrite with the index updated before the error is returned
AfterFailedWriteIndexUpdated(store, saved) ==
    [store EXCEPT !.data = saved.data, !.index = IndexUpdate(@, saved.offsets)]

\* The store once fs::write has failed in save_to_file: the state is
\* mutated and sorted in memory, `?` returns before self.index.update
AfterFailedWrite(store, saved) == [store EXCEPT !.data = saved.data]

\* fs::write failed: the data file is as it was or, opened and truncated,
\* empty; the call returns FileWriteFailed
WriteFailed(p, c, saved, left) ==
    /\ fs' = [fs EXCEPT ![saved.data.path] = left]
    /\ proc' = [proc EXCEPT ![p] = [proc[p] EXCEPT !.pc = "failed",
                                                    !.ds = AfterFailedWrite(@, saved)]]
    /\ last' = CallOf(c, "FileWriteFailed")
    /\ UNCHANGED <<ds, family, step, writes>>

WriteFails(p, c, saved) ==
    \E left \in {fs[saved.data.path], File(<<>>)} : WriteFailed(p, c, saved, left)

Failing(p, c, mutated) ==
    /\ mutated.kind = "Ok"
    /\ WriteFails(p, c, DataSaveToFile([proc[p].ds.data EXCEPT !.state = mutated.val], fs))

\* A mutation whose data-file write fails
DataWriteFails(p) ==
    /\ proc[p].pc = "loaded"
    /\ DataWrites < MaxMutations
    /\ \E c \in ProcessCalls : Failing(p, c, DataOp(c, proc[p].ds.data.state, fs))

\* self.index.update(index_offsets); self.index.save_to_file()?; Ok(())
IndexWritten(p, isaved) ==
    /\ fs' = isaved.fs
    /\ proc' = [proc EXCEPT ![p] = [pc |-> "loaded",
                                    ds |-> [proc[p].ds EXCEPT !.index = isaved.index],
                                    call |-> <<>>, offsets |-> <<>>,
                                    done |-> proc[p].done + 1]]
    /\ writes' = Append(writes, <<p, "index">>)
    /\ last' = CallOf(proc[p].call, "Ok")
    /\ UNCHANGED <<ds, family, step>>

\* The rest of a mutation behind its data-file write
SaveIndex(p) ==
    /\ proc[p].pc = "data_saved"
    /\ IndexWritten(p, IndexSaveToFile(IndexUpdate(proc[p].ds.index, proc[p].offsets), fs))

\* The process is stopped between its two writes
Stop(p) ==
    /\ proc[p].pc = "data_saved"
    /\ proc' = [proc EXCEPT ![p].pc = "stopped"]
    /\ UNCHANGED <<fs, ds, family, last, step, writes>>

\* ReadDataStore::new(None, parent) and read_parent(parent) of a reader
Read ==
    \E parent \in {ParentP, ParentQ} :
        ReadWith(ReadDataStoreNew(fs, <<>>, parent), parent)

\* No command has run; the import source is that of the family twins
NoneStarted == Unopened /\ family = "twins"

WriterNext ==
    \E p \in {1} : Open(p) \/ Begin(p) \/ DataWriteFails(p) \/ SaveIndex(p) \/ Stop(p)

\* One process that mutates, and readers
OneWriter == NoneStarted /\ [][WriterNext \/ Read]_vars

WritersNext ==
    \E p \in Procs : Open(p) \/ Begin(p) \/ DataWriteFails(p) \/ SaveIndex(p) \/ Stop(p)

\* Two processes that mutate the same files
TwoWriters == NoneStarted /\ [][WritersNext]_vars

(***************************************************************************)
(* Importing a source of any text: the source links.tap holds up to        *)
(* MaxLines of TextLines; the store holds no parent, or p with one link.   *)
(***************************************************************************)
\* The states of the store before the import
StoredStates == {<<>>, << <<ParentP, <<NewLink(Str(<<"a">>), Str(<<"1">>))>> >> >>}

\* The files of a store saved with the state d, and the source of text t
SavedWith(d, t) ==
    [Disk("markup") EXCEPT ![DefaultDataPath] = File(Utf8Encode(DataFileString(d))),
                           ![DefaultIndexPath] = File(Utf8Encode(IndexFileString(DataOffsets(d)))),
                           ![TapSource] = File(Utf8Encode(t))]

\* DataStore::new(None) has loaded the store; the source is written
SourceWritten ==
    /\ family = "markup"
    /\ \E d \in StoredStates, t \in Texts : Opened(DataStoreNew(SavedWith(d, t), <<>>))
    /\ last = Call("new", None, None, None, <<>>, "Ok", <<>>)
    /\ step = 0
    /\ Whole

\* DataStore::import of a source
Importing == SourceWritten /\ [][Import]_vars

(***************************************************************************)
(* A command that finds an index file it did not write.  The data file is  *)
(* one the store wrote; the index file holds up to MaxIndexLines of the    *)
(* lines below, which Index::parse_file accepts: entries with offsets that *)
(* are stale, entries of parents the data file does not hold, entries      *)
(* missing or repeated.  Process 1 loads the store and makes no call;      *)
(* process 2 loads it and mutates.                                         *)
(***************************************************************************)
IndexLines ==
    {Str(<<"p","|","0">>), Str(<<"q","|","0">>), Str(<<"q","|","1","0">>), Str(<<"z","|","3">>)}

MaxIndexLines == 2

IndexTexts == {Joined(ls) : ls \in UNION {[1..n -> IndexLines] : n \in 0..MaxIndexLines}}

\* The data files found: written by the store for no parent, for p, for p and q
DataTexts ==
    {DataFileString(<<>>),
     DataFileString(<< <<ParentP, <<NewLink(Str(<<"a">>), Str(<<"1">>))>> >> >>),
     DataFileString(<< <<ParentP, <<NewLink(Str(<<"a">>), Str(<<"1">>))>> >>,
                       <<ParentQ, <<NewLink(Str(<<"a">>), Str(<<"1">>))>> >> >>)}

\* Both files exist, no process has started
FoundIndex ==
    /\ family = "twins"
    /\ ds = NoStore
    /\ last = Call("none", None, None, None, <<>>, "Ok", <<>>)
    /\ step = 0
    /\ Whole
    /\ \E d \in DataTexts, x \in IndexTexts :
           fs = [Disk(family) EXCEPT ![DefaultDataPath] = File(Utf8Encode(d)),
                                    ![DefaultIndexPath] = File(Utf8Encode(x))]

RebuiltNext ==
    \/ Open(1)
    \/ Open(2)
    \/ Begin(2)
    \/ DataWriteFails(2)
    \/ SaveIndex(2)
    \/ Stop(2)

Rebuilt == FoundIndex /\ [][RebuiltNext]_vars

\* Readers on the files found: ReadDataStore::new seeks the data file at
\* the offset the index file gives
Seeking == FoundIndex /\ [][Read]_vars

(***************************************************************************)
(* The constructors with a path override.  DataStore::new(path) hands the  *)
(* same Option<PathBuf> to Data::new and to Index::new, and each uses      *)
(* Some(path) as the path of its file.                                     *)
(***************************************************************************)
\* The path a caller passes as the override
OverridePath == <<"store", "">>

\* The constructor's argument: None or Some(OverridePath)
PathArgs == {<<>>, <<OverridePath>>}

\* No command has run and nothing exists at the override path
NoneStartedAt ==
    /\ family = "twins"
    /\ fs = [p \in Paths \cup {OverridePath} |-> IF p \in Paths THEN Disk(family)[p] ELSE NoFile]
    /\ ds = NoStore
    /\ last = Call("none", None, None, None, <<>>, "Ok", <<>>)
    /\ step = 0
    /\ Whole

\* The effect of a DataStore::new(path) that returned `made`
OpenedAt(made, path) ==
    /\ ds' = IF made.kind = "Ok" THEN made.ds ELSE ds
    /\ fs' = made.fs
    /\ last' = Call("new", None, None, None, path, made.kind, <<>>)
    /\ UNCHANGED <<family, step, proc, writes>>

\* DataStore::new(path)
OpenAt == \E path \in PathArgs : OpenedAt(DataStoreNew(fs, path), path)

\* ReadDataStore::new(path, parent) and read_parent(parent)
ReadAt ==
    \E path \in PathArgs, parent \in ParentArgs(family) :
        ReadWith(ReadDataStoreNew(fs, path, parent), parent)

OverriddenNext ==
    \/ OpenAt
    \/ Loaded /\ (AddLink \/ UpsertLink \/ Delete \/ Import)
    \/ ReadAt

Overridden == NoneStartedAt /\ [][OverriddenNext]_vars

(***************************************************************************)
(* Reading the two files as text, by the layout state_to_file_string       *)
(* writes: a parent is "<parent>->\n", a link "  <link>|<value>\n", an     *)
(* index entry "<parent>|<offset>\n".                                      *)
(***************************************************************************)
Mutations == {"add_link", "upsert_link", "delete", "import"}

\* The last call was a mutation that returned Ok
Mutated == last.op \in Mutations /\ last.kind = "Ok"

\* The lines of a file as <<byte offset of the line, bytes of the line>>
RECURSIVE FileLinesFrom(_, _)
FileLinesTo(b, start, stop) ==
    << <<start - 1, SubSeq(b, start, stop - 1)>> >> \o FileLinesFrom(b, stop + 1)

FileLinesFrom(b, start) ==
    IF start > Len(b) THEN <<>>
    ELSE FileLinesTo(b, start, Min({i \in start..Len(b) : b[i] = 10} \cup {Len(b) + 1}))

FileLines(b) == FileLinesFrom(b, 1)

IsLinkLine(ln) == Len(ln[2]) >= 2 /\ ln[2][1] = 32 /\ ln[2][2] = 32
IsHeaderLine(ln) == ~IsLinkLine(ln)

\* The parent a header line names, the link a link line names
HeaderName(ln) == SubSeq(ln[2], 1, Len(ln[2]) - 2)
LinkName(ln) == SplitOnce(SubSeq(ln[2], 3, Len(ln[2])), Pipe)[1]

\* The parents of the data file with the offsets of their headers
DataFileHeaders(b) == SelectSeq(FileLines(b), IsHeaderLine)

\* The index entry that describes a header line
IndexBytesOf(ln) == HeaderName(ln) \o <<Pipe>> \o ToDecimal(ln[1]) \o Newline

\* The index file that describes the data file b
RECURSIVE IndexBytesFor(_)
IndexBytesFor(headers) ==
    IF headers = <<>> THEN <<>>
    ELSE IndexBytesFor(SubSeq(headers, 1, Len(headers) - 1))
         \o IndexBytesOf(headers[Len(headers)])

DataBytes == fs[ds.data.path].bytes
IndexBytes == fs[ds.index.path].bytes

\* The headers all end in "->" and the index describes them
Coherent(headers, index_bytes) ==
    /\ \A i \in 1..Len(headers) : EndsWith(headers[i][2], Arrow)
    /\ index_bytes = IndexBytesFor(headers)

(***************************************************************************)
(* C1. Index coherence: after every successful mutation the index file     *)
(* lists exactly the parents whose headers the data file holds, in the     *)
(* same order, each with the byte offset at which its "<parent>->\n"       *)
(* begins in the data file.                                                *)
(***************************************************************************)
C1_IndexCoherence == Mutated => Coherent(DataFileHeaders(DataBytes), IndexBytes)

\* Two parents on disk, the second behind a non-ASCII value
SecondBehindWide(b, headers) ==
    /\ Len(headers) >= 2
    /\ \E i \in 1..Len(b) : b[i] >= 128 /\ i < headers[2][1]

C1_Witness == Mutated /\ SecondBehindWide(DataBytes, DataFileHeaders(DataBytes))

(***************************************************************************)
(* C2. Indexed read equals slow read: after a successful mutation, for     *)
(* every parent P of the store, ReadDataStore::new(None, P).read_parent(P) *)
(* returns the same (link, value) pairs as read_parent_slow(P) of a        *)
(* DataStore loaded from the same files.                                   *)
(***************************************************************************)
\* The parents of a state, as the data file names them
ParentsOf(state) == {Trim(state[i][1]) : i \in 1..Len(state)}

\* Both reads of every parent of the store DataStore::new loaded
SameReads(loaded, fsys) ==
    /\ loaded.kind = "Ok"
    /\ \A P \in ParentsOf(loaded.ds.data.state) :
          IndexedReadParent(fsys, <<>>, P) = read_parent_slow(loaded.ds, P)

C2_IndexedReadEqualsSlowRead == Mutated => SameReads(DataStoreNew(fs, <<>>), fs)

(***************************************************************************)
(* C3. Seeked-load fidelity: after a successful mutation, for every parent *)
(* P of the index, Data::new with the (offset, length) that                *)
(* find_parent_offset_and_length(P) returns yields a state of exactly one  *)
(* parent, P, with exactly P's links; the last parent has length 0 and is  *)
(* read to the end of the file.                                            *)
(***************************************************************************)
\* The links the store holds for the parent named P in the files
LinksOf(state, P) == state[Position({i \in 1..Len(state) : Trim(state[i][1]) = P})][2]

\* The seeked load d holds exactly P with the links
LoadedExactly(d, P, links) == d.kind = "Ok" /\ d.state = << <<P, links>> >>

\* The seeked load for the lookup iol of P
SeekedLoad(store, fsys, iol, P) ==
    /\ iol.kind = "Ok"
    /\ LoadedExactly(DataNew(fsys, store.data.path, iol.val), P,
                     LinksOf(store.data.state, P))

C3_SeekedLoadFidelity ==
    Mutated =>
        \A i \in 1..Len(ds.index.state) :
            SeekedLoad(ds, fs,
                       find_parent_offset_and_length(ds.index.state, ds.index.state[i][1]),
                       ds.index.state[i][1])

(***************************************************************************)
(* C4. Canonical order: after every successful mutation the data file      *)
(* lists the parents in ascending order of name and, within each parent,   *)
(* the links in ascending order of link name (the names are written        *)
(* trimmed).                                                               *)
(***************************************************************************)
HeadersAscending(headers) ==
    \A i \in 1..(Len(headers) - 1) :
        StrCmp(HeaderName(headers[i]), HeaderName(headers[i + 1])) <= 0

LinksAscending(lines) ==
    \A i \in 1..(Len(lines) - 1) :
        (IsLinkLine(lines[i]) /\ IsLinkLine(lines[i + 1]))
            => StrCmp(LinkName(lines[i]), LinkName(lines[i + 1])) <= 0

C4_CanonicalOrder ==
    Mutated => /\ HeadersAscending(DataFileHeaders(DataBytes))
               /\ LinksAscending(FileLines(DataBytes))

\* The add_link that has just returned created its parent, which the file
\* lists first of two, and another parent holds two links
SortedToFront(lines, headers) ==
    /\ Len(headers) >= 2
    /\ HeaderName(headers[1]) = Trim(last.parent)
    /\ headers[2][1] = Len(lines[1][2]) + 1 + Len(lines[2][2]) + 1
    /\ \E i \in 1..(Len(lines) - 1) : IsLinkLine(lines[i]) /\ IsLinkLine(lines[i + 1])

C4_Witness ==
    /\ Mutated
    /\ last.op = "add_link"
    /\ SortedToFront(FileLines(DataBytes), DataFileHeaders(DataBytes))

(***************************************************************************)
(* C5. Data-file round trip: after every successful mutation, loading the  *)
(* data file that save wrote and saving it again yields the same bytes,    *)
(* and the loaded state holds the same parents, links and values.          *)
(***************************************************************************)
\* The state with its parents named as the file names them
Written(state) == [i \in 1..Len(state) |-> <<Trim(state[i][1]), state[i][2]>>]

RoundTrips(loaded, bytes, state) ==
    /\ loaded.kind = "Ok"
    /\ Utf8Encode(DataFileString(DataSortState(loaded.state))) = bytes
    /\ loaded.state = Written(state)

C5_DataFileRoundTrip ==
    Mutated => RoundTrips(DataNew(fs, ds.data.path, None), DataBytes, ds.data.state)

(***************************************************************************)
(* C6. Link uniqueness: in every reachable state no parent holds two links *)
(* whose names are equal after trimming.                                   *)
(***************************************************************************)
UniqueLinks(links) ==
    \A j, k \in 1..Len(links) : Trim(links[j][1]) = Trim(links[k][1]) => j = k

C6_LinkUniqueness == \A i \in 1..Len(ds.data.state) : UniqueLinks(ds.data.state[i][2])

(***************************************************************************)
(* C7. Validity: after every successful mutation no parent header of the   *)
(* data file names a reserved token and no link name written to it         *)
(* contains '|'.                                                           *)
(***************************************************************************)
NoReservedHeader(headers) ==
    \A i \in 1..Len(headers) : HeaderName(headers[i]) \notin ReservedKeywords

NoPipeInLinks(state) ==
    \A i \in 1..Len(state) : \A j \in 1..Len(state[i][2]) :
        ~Contains(Trim(state[i][2][j][1]), Pipe)

C7_Validity ==
    Mutated => /\ NoReservedHeader(DataFileHeaders(DataBytes))
               /\ NoPipeInLinks(ds.data.state)

(***************************************************************************)
(* C8. Trimmed comparison of parents: in every reachable state the parent  *)
(* names held are trimmed, and for every parent argument q that passes     *)
(* validation and equals a held parent after trimming, get returns that    *)
(* parent's links, remove removes that parent, and add_link and            *)
(* upsert_link of a new link add it to that parent instead of creating a   *)
(* second one.                                                             *)
(***************************************************************************)
\* The first entry whose trimmed name equals the trimmed q, 0 when none
TrimmedPosition(state, q) ==
    Position({i \in 1..Len(state) : Trim(state[i][1]) = Trim(q)})

Normalised(state) == \A i \in 1..Len(state) : state[i][1] = Trim(state[i][1])

\* A link name no argument of the family trims to
FreshLink == Str(<<"z">>)

\* The four operations act on the entry at position i, which q names
SameParent(state, q, i) ==
    /\ DataGet(state, q, None) = Ok(state[i][2])
    /\ DataRemove(state, q, None) = Ok(RemoveAt(state, i))
    /\ DataAddLink(state, q, FreshLink, FreshLink).kind = "Ok"
    /\ Len(DataAddLink(state, q, FreshLink, FreshLink).val) = Len(state)
    /\ DataUpsertLink(state, q, FreshLink, FreshLink).kind = "Ok"
    /\ Len(DataUpsertLink(state, q, FreshLink, FreshLink).val) = Len(state)

TrimmedParents(state, args) ==
    \A q \in args :
        (validate_parent(q) = "Ok" /\ TrimmedPosition(state, q) # 0)
            => SameParent(state, q, TrimmedPosition(state, q))

C8_TrimmedParents ==
    /\ Normalised(ds.data.state)
    /\ TrimmedParents(ds.data.state, ParentArgs(family))

(***************************************************************************)
(* C9. The scenario: on the empty store, add_link(search-engines, google,  *)
(* https://google.com), add_link(search-engines, yahoo, https://yahoo.com) *)
(* and add_link(repo, gh, https://github.com) leave the data file          *)
(*   repo->\n  gh|https://github.com\nsearch-engines->\n                   *)
(*     google|https://google.com\n  yahoo|https://yahoo.com\n              *)
(* and the index file repo|0\nsearch-engines|26\n.                         *)
(***************************************************************************)
ScenarioDataFile ==
    Str(<<"r","e","p","o","-",">","\n",
          " "," ","g","h","|","h","t","t","p","s",":","/","/",
              "g","i","t","h","u","b",".","c","o","m","\n",
          "s","e","a","r","c","h","-","e","n","g","i","n","e","s","-",">","\n",
          " "," ","g","o","o","g","l","e","|","h","t","t","p","s",":","/","/",
              "g","o","o","g","l","e",".","c","o","m","\n",
          " "," ","y","a","h","o","o","|","h","t","t","p","s",":","/","/",
              "y","a","h","o","o",".","c","o","m","\n">>)

ScenarioIndexFile ==
    Str(<<"r","e","p","o","|","0","\n",
          "s","e","a","r","c","h","-","e","n","g","i","n","e","s","|","2","6","\n">>)

C9_Scenario ==
    step = 3 => DataBytes = ScenarioDataFile /\ IndexBytes = ScenarioIndexFile

\* C9 with the offset the data file has: "repo->\n" is 7 bytes and
\* "  gh|https://github.com\n" 24, so "search-engines->\n" begins at byte 31
ScenarioIndexFileAt31 ==
    Str(<<"r","e","p","o","|","0","\n",
          "s","e","a","r","c","h","-","e","n","g","i","n","e","s","|","3","1","\n">>)

C9_ScenarioAt31 ==
    step = 3 => DataBytes = ScenarioDataFile /\ IndexBytes = ScenarioIndexFileAt31

\* The third call of the scenario has returned Ok
C9_Witness == step = 3 /\ last.op = "add_link" /\ last.kind = "Ok"

(***************************************************************************)
(* C10. Duplicate add is rejected without effect: an add_link(parent,      *)
(* link, value) whose parent is held under exactly that name with a link   *)
(* of exactly that name returns LinkAlreadyExists and leaves the state in  *)
(* memory, the data file and the index file unchanged.                     *)
(***************************************************************************)
HoldsLink(state, parent, link) ==
    \E i \in 1..Len(state) :
        /\ state[i][1] = parent
        /\ \E j \in 1..Len(state[i][2]) : state[i][2][j][1] = link

C10_DuplicateAddRejected ==
    [][(last'.op = "add_link" /\ HoldsLink(ds.data.state, last'.parent, last'.link))
          => (last'.kind = "LinkAlreadyExists" /\ ds' = ds /\ fs' = fs)]_vars

(***************************************************************************)
(* C11. Idempotence of upsert_link: in every reachable state, for every    *)
(* (parent, link, value), a second upsert_link of the same arguments       *)
(* returns what the first returned and leaves the store and both files as  *)
(* the first left them.                                                    *)
(***************************************************************************)
\* Two results of the same kind with the same store and the same files
SameOutcome(once, twice) ==
    twice.kind = once.kind /\ twice.ds = once.ds /\ twice.fs = once.fs

\* The upsert_link c repeated on what its first application left
UpsertAgain(once, c) ==
    SameOutcome(once, DataStoreUpsertLink(once.ds, once.fs, c[1], c[2], c[3]))

C11_UpsertIdempotent ==
    \A c \in LinkCalls(family) :
        UpsertAgain(DataStoreUpsertLink(ds, fs, c[1], c[2], c[3]), c)

(***************************************************************************)
(* C12. Add/remove inverse: in every reachable state, for every (p, l, v)  *)
(* whose link l is not present in parent p (names compared trimmed) and    *)
(* whose add_link(p, l, v) returns Ok, the delete(p, Some(l)) that follows *)
(* returns Ok and leaves the store and both files as they were before the  *)
(* add.                                                                    *)
(***************************************************************************)
\* Some entry named parent holds a link named link, names compared trimmed
PresentTrimmed(state, parent, link) ==
    \E i \in 1..Len(state) :
        /\ Trim(state[i][1]) = Trim(parent)
        /\ \E j \in 1..Len(state[i][2]) : Trim(state[i][2][j][1]) = Trim(link)

\* The result of the delete is Ok with the given store and files
Restored(removed, store, fsys) ==
    removed.kind = "Ok" /\ removed.ds = store /\ removed.fs = fsys

\* The delete of the link that the add_link `added` has just stored
RemoveAdded(added, c, store, fsys) ==
    added.kind = "Ok"
        => Restored(DataStoreDelete(added.ds, added.fs, c[1], c[2]), store, fsys)

C12_AddRemoveInverse ==
    \A c \in LinkCalls(family) :
        ~PresentTrimmed(ds.data.state, c[1], c[2])
            => RemoveAdded(DataStoreAddLink(ds, fs, c[1], c[2], c[3]), c, ds, fs)

(***************************************************************************)
(* C13. Cascade: when a delete(parent, Some(link)) that returns Ok removes *)
(* the only link the store holds for the parent, no header of the data     *)
(* file and no entry of the index file names the parent afterwards.        *)
(***************************************************************************)
\* One entry is named parent (names compared trimmed) and it holds one link
OnlyLink(state, parent) ==
    \E i \in 1..Len(state) :
        /\ Trim(state[i][1]) = Trim(parent)
        /\ Len(state[i][2]) = 1
        /\ \A k \in 1..Len(state) : Trim(state[k][1]) = Trim(parent) => k = i

\* Some header of the data file names the parent
InDataFile(headers, name) ==
    \E i \in 1..Len(headers) : headers[i][2] = name \o Arrow

\* Some line of the index file is "<name>|<offset>"
InIndexFile(lines, name, offsets) ==
    \E i \in 1..Len(lines) : \E n \in offsets :
        lines[i][2] = name \o <<Pipe>> \o ToDecimal(n)

\* The parent appears in neither file
Gone(name, data_bytes, index_bytes) ==
    /\ ~InDataFile(DataFileHeaders(data_bytes), name)
    /\ ~InIndexFile(FileLines(index_bytes), name, 0..Len(data_bytes))

C13_Cascade ==
    [][(/\ last'.op = "delete"
        /\ last'.kind = "Ok"
        /\ last'.link # None
        /\ OnlyLink(ds.data.state, last'.parent))
          => Gone(Trim(last'.parent), DataBytes', IndexBytes')]_vars

\* A delete of a link has returned Ok, its parent is no longer held and
\* another parent is
C13_Witness ==
    /\ last.op = "delete"
    /\ last.kind = "Ok"
    /\ last.link # None
    /\ TrimmedPosition(ds.data.state, last.parent) = 0
    /\ ds.data.state # <<>>

(***************************************************************************)
(* C14. Import overwrites on conflict: after an import that returns Ok,    *)
(* for every (parent, link, value) record of the source, reading           *)
(* (parent, link) from the store returns the imported value, and every     *)
(* local (parent, link) that the source does not name reads as before.     *)
(***************************************************************************)
\* The records of the import source at path
SourceRecords(fsys, path) ==
    ImportRecords(DataParseFile(ReadToString(fsys[path]).val).val)

\* The store returns the value of every record
ReadsImported(state, records) ==
    \A k \in 1..Len(records) :
        DataGet(state, Trim(records[k][1]), records[k][2])
            = Ok(<< <<records[k][2], records[k][3]>> >>)

\* Some record names the parent and the link, names compared trimmed
Named(records, parent, link) ==
    \E k \in 1..Len(records) :
        Trim(records[k][1]) = Trim(parent) /\ Trim(records[k][2]) = Trim(link)

\* Every link held before that no record names reads as before
KeepsLocal(before, after, records) ==
    \A i \in 1..Len(before) : \A j \in 1..Len(before[i][2]) :
        ~Named(records, before[i][1], before[i][2][j][1])
            => DataGet(after, Trim(before[i][1]), before[i][2][j][1])
                 = DataGet(before, Trim(before[i][1]), before[i][2][j][1])

Imported(before, after, records) ==
    ReadsImported(after, records) /\ KeepsLocal(before, after, records)

C14_ImportOverwrites ==
    [][(last'.op = "import" /\ last'.kind = "Ok")
          => Imported(ds.data.state, ds'.data.state, SourceRecords(fs, last'.path[1]))]_vars

(***************************************************************************)
(* C15. Import source checks: an import whose path has an extension other  *)
(* than "tap" (or none) returns InvalidFileExtension, whether or not the   *)
(* file exists; an import whose path has the extension "tap" and names no  *)
(* file returns FileOpenFailed; both leave the store and the files         *)
(* unchanged.                                                              *)
(***************************************************************************)
\* What the import of path has to return, "" where C15 says nothing
SourceCheck(fsys, path) ==
    IF path[2] # "tap" THEN "InvalidFileExtension"
    ELSE IF ~fsys[path].exists THEN "FileOpenFailed"
    ELSE ""

C15_ImportSourceChecks ==
    [][(last'.op = "import" /\ SourceCheck(fs, last'.path[1]) # "")
          => /\ last'.kind = SourceCheck(fs, last'.path[1])
             /\ ds' = ds
             /\ fs' = fs]_vars

\* An import of a missing file without the extension "tap" has returned
\* InvalidFileExtension while the store holds links
C15_Witness ==
    /\ last.op = "import"
    /\ last.kind = "InvalidFileExtension"
    /\ ~fs[last.path[1]].exists
    /\ ds.data.state # <<>>

(***************************************************************************)
(* C16. remove outcomes: in every reachable state, for every parent and    *)
(* link argument that pass validation, remove(parent, link) returns        *)
(* ParentEntityNotFound when no parent of that name is held and            *)
(* LinkNotFound when the parent is held without that link, and the delete  *)
(* then changes neither the store nor the files; with link = None the      *)
(* state afterwards holds no parent of that name, otherwise it holds the   *)
(* parent without that link (and without the parent, had it no other       *)
(* link); everything else is kept.  Names are compared as they are held.   *)
(***************************************************************************)
\* The state without the entries named q
WithoutParent(state, q) == SelectSeq(state, LAMBDA e : e[1] # q)

\* The entry without the links named l
EntryWithoutLink(e, q, l) ==
    IF e[1] = q THEN <<e[1], SelectSeq(e[2], LAMBDA lv : lv[1] # l)>> ELSE e

\* The state without the links named l of the entries named q, and without
\* the entries left with no link
WithoutLink(state, q, l) ==
    SelectSeq([i \in 1..Len(state) |-> EntryWithoutLink(state[i], q, l)],
              LAMBDA e : e[2] # <<>>)

\* What remove(q, l) has to return on the state
RemoveOutcome(state, q, l) ==
    IF \A i \in 1..Len(state) : state[i][1] # q THEN Err("ParentEntityNotFound")
    ELSE IF l = None THEN Ok(WithoutParent(state, q))
    ELSE IF ~HoldsLink(state, q, l) THEN Err("LinkNotFound")
    ELSE Ok(WithoutLink(state, q, l))

\* A delete that returned an error changed nothing
ErrorKeeps(r, store, fsys) == r.kind # "Ok" => (r.ds = store /\ r.fs = fsys)

RemoveAsSpecified(store, fsys, q, l) ==
    /\ DataRemove(store.data.state, q, l) = RemoveOutcome(store.data.state, q, l)
    /\ ErrorKeeps(DataStoreDelete(store, fsys, q, l), store, fsys)

C16_RemoveOutcomes ==
    \A q \in ParentArgs(family), l \in LinkArgs(family) \cup {None} :
        (validate_parent(q) = "Ok" /\ (l = None \/ validate_link(l) = "Ok"))
            => RemoveAsSpecified(ds, fs, q, l)

(***************************************************************************)
(* C17. Lookups of a ReadDataStore are constrained to its parent: on the   *)
(* ReadDataStore constructed for a parent P of the store, read_link(P, l)  *)
(* returns (l, value) when the store holds l in P and LinkNotFound         *)
(* otherwise, and read_link and read_parent for any other parent Q of the  *)
(* store return ParentEntityNotFound.                                      *)
(***************************************************************************)
\* The (link, value) pairs the store holds under the parent named P
HeldIn(state, P) ==
    UNION {{state[i][2][j] : j \in 1..Len(state[i][2])} :
             i \in {i \in 1..Len(state) : Trim(state[i][1]) = P}}

\* read_link found a pair the store holds under that name, or nothing
\* where the store holds none
LinkAsHeld(got, held, l) ==
    IF \E lv \in held : lv[1] = Trim(l)
    THEN got.kind = "Ok" /\ got.val \in held /\ got.val[1] = Trim(l)
    ELSE got = Err("LinkNotFound")

\* Every lookup of the other parent Q fails with ParentEntityNotFound
OtherParentHidden(rds, Q, ls) ==
    /\ read_parent(rds, Q) = Err("ParentEntityNotFound")
    /\ \A l \in ls : read_link(rds, Q, l) = Err("ParentEntityNotFound")

ConstrainedTo(made, state, P, ls) ==
    made.kind = "Ok" =>
        /\ \A l \in ls : LinkAsHeld(read_link(made.ds, P, l), HeldIn(state, P), l)
        /\ \A Q \in ParentsOf(state) \ {P} : OtherParentHidden(made.ds, Q, ls)

\* The link names of the family that validate_link accepts
ValidLinks(f) == {l \in LinkArgs(f) : validate_link(l) = "Ok"}

C17_ConstrainedToParent ==
    Mutated =>
        \A P \in ParentsOf(ds.data.state) :
            ConstrainedTo(ReadDataStoreNew(fs, <<>>, P), ds.data.state, P, ValidLinks(family))

(***************************************************************************)
(* C18. ReadDataStore never writes: constructing a ReadDataStore for any   *)
(* parent, successfully or not, leaves the data file and the index file    *)
(* (every file on disk) exactly as they were; read_link, read_parent and   *)
(* links take the constructed store alone and have no file to write.       *)
(***************************************************************************)
C18_NeverWrites ==
    \A P \in ParentArgs(family) : ReadDataStoreNew(fs, <<>>, P).fs = fs

(***************************************************************************)
(* C19. Index lookup: find_parent_offset_and_length(parent) returns        *)
(* (offset, next entry's offset minus this offset) for an entry that is    *)
(* not last, (offset, 0) for the last entry, and ParseError when the       *)
(* parent is not in the index, so that ReadDataStore::new for an unknown   *)
(* parent fails with ParseError.  Names are compared trimmed.              *)
(***************************************************************************)
\* The position of the entry of q in the index, 0 when it has none
EntryOf(index_state, q) ==
    Position({i \in 1..Len(index_state) : Trim(index_state[i][1]) = Trim(q)})

LookupOf(index_state, i) ==
    IF i = 0 THEN Err("ParseError")
    ELSE IF i = Len(index_state) THEN Ok(<<index_state[i][2], 0>>)
    ELSE Ok(<<index_state[i][2], index_state[i + 1][2] - index_state[i][2]>>)

LookupAsSpecified(index_state, fsys, q, i) ==
    /\ find_parent_offset_and_length(index_state, q) = LookupOf(index_state, i)
    /\ i = 0 => ReadDataStoreNew(fsys, <<>>, q).kind = "ParseError"

C19_IndexLookup ==
    \A q \in ParentArgs(family) :
        LookupAsSpecified(ds.index.state, fs, q, EntryOf(ds.index.state, q))

\* One parent has an entry that is not last and a length, another has none
C19_Witness ==
    \E q, u \in ParentArgs(family) :
        /\ EntryOf(ds.index.state, q) \in 1..(Len(ds.index.state) - 1)
        /\ find_parent_offset_and_length(ds.index.state, q).val[2] > 0
        /\ EntryOf(ds.index.state, u) = 0

(***************************************************************************)
(* C20. Index-file round trip: after every successful mutation, loading    *)
(* the index file that the mutation saved yields the list of               *)
(* (parent, offset) entries that the mutation installed in the index.      *)
(***************************************************************************)
LoadsAs(loaded, index_state) == loaded.kind = "Ok" /\ loaded.state = index_state

C20_IndexFileRoundTrip ==
    Mutated => LoadsAs(IndexNew(fs, ds.index.path), ds.index.state)

(***************************************************************************)
(* C21. Link-line classification: Data::parse_file treats every line that  *)
(* contains '|' as a link line, split at the first '|' into (link, value)  *)
(* whatever the text of the value; only a line that ends with "->" and     *)
(* holds no '|' starts a parent.  So the links of a parsed state are, in   *)
(* order, the lines with a '|', and its parents are lines without one.     *)
(***************************************************************************)
\* The text of the data file
DataText == ReadToString(fs[DefaultDataPath]).val

\* The (link, value) of a line split at its first '|', trimmed as stored
LinkOfLine(lv) == <<Trim(lv[1]), Trim(lv[2])>>

\* The lines that hold a '|', each as its (link, value)
LinkLinesOf(lines) ==
    [k \in 1..Len(SelectSeq(lines, LAMBDA l : Contains(l, Pipe))) |->
        LinkOfLine(SplitOnce(SelectSeq(lines, LAMBDA l : Contains(l, Pipe))[k], Pipe))]

RECURSIVE AllLinks(_)
\* The links of a state, parent after parent
AllLinks(state) ==
    IF state = <<>> THEN <<>>
    ELSE AllLinks(SubSeq(state, 1, Len(state) - 1)) \o state[Len(state)][2]

\* The names of the lines that end with "->" and hold no '|'
HeaderNamesOf(lines) ==
    {TrimEndMatches(lines[k], Arrow) :
        k \in {k \in 1..Len(lines) : EndsWith(lines[k], Arrow) /\ ~Contains(lines[k], Pipe)}}

Classified(parsed, lines) ==
    parsed.kind = "Ok" =>
        /\ AllLinks(parsed.val) = LinkLinesOf(lines)
        /\ \A i \in 1..Len(parsed.val) : parsed.val[i][1] \in HeaderNamesOf(lines)

C21_LinkLineClassification == Classified(DataParseFile(DataText), Lines(DataText))

(***************************************************************************)
(* C22. Parse errors: Data::parse_file returns ParseError when a link line *)
(* (a line with a '|') occurs before any parent header and when a          *)
(* non-blank line neither ends with "->" nor holds a '|'; blank lines are  *)
(* skipped without error.  An earlier line whose header names a reserved   *)
(* token ends the parse with ReservedKeyword first.                        *)
(***************************************************************************)
IsBlank(line) == Trim(line) = <<>>
IsLink(line) == Contains(line, Pipe)
IsHeader(line) == EndsWith(line, Arrow) /\ ~Contains(line, Pipe)
IsUnknown(line) == ~IsBlank(line) /\ ~IsLink(line) /\ ~IsHeader(line)

\* No line before the k-th is a header of a reserved name
NoneReservedBefore(lines, k) ==
    \A j \in 1..(k - 1) :
        IsHeader(lines[j]) => validate_parent(TrimEndMatches(lines[j], Arrow)) = "Ok"

\* The k-th line is a link line with no header before it
Orphan(lines, k) == IsLink(lines[k]) /\ \A j \in 1..(k - 1) : ~IsHeader(lines[j])

ErrorsAsSpecified(parsed, lines) ==
    \A k \in 1..Len(lines) :
        ((Orphan(lines, k) \/ IsUnknown(lines[k])) /\ NoneReservedBefore(lines, k))
            => parsed = Err("ParseError")

BlanksSkipped(parsed, lines) ==
    parsed = DataParseFile(Joined(SelectSeq(lines, LAMBDA l : ~IsBlank(l))))

ParsesAsSpecified(parsed, lines) ==
    ErrorsAsSpecified(parsed, lines) /\ BlanksSkipped(parsed, lines)

C22_ParseErrors == ParsesAsSpecified(DataParseFile(DataText), Lines(DataText))

(***************************************************************************)
(* C23. Empty file if and only if empty state: saving the empty state      *)
(* writes a zero-length data file, loading a zero-length data file gives   *)
(* the empty state, and no non-empty data file loads to the empty state.   *)
(***************************************************************************)
\* The bytes save_to_file writes for a state
SavedBytes(state) == Utf8Encode(DataFileString(DataSortState(state)))

EmptyLoadsEmpty(parsed, text) == text = <<>> => parsed = Ok(<<>>)

C23_EmptyIffEmpty ==
    /\ SavedBytes(<<>>) = <<>>
    /\ EmptyLoadsEmpty(DataParseFile(DataText), DataText)
    /\ DataText # <<>> => DataParseFile(DataText) # Ok(<<>>)

(***************************************************************************)
(* C23, as the code has it: save writes a zero-length data file exactly    *)
(* for the empty state, and loading a zero-length data file gives the      *)
(* empty state.  (A file of headers without links or of blank lines is not *)
(* empty and loads to the empty state.)                                    *)
(***************************************************************************)
C23_EmptySavedAndLoaded ==
    /\ SavedBytes(ds.data.state) = <<>> <=> ds.data.state = <<>>
    /\ EmptyLoadsEmpty(DataParseFile(DataText), DataText)

\* DataStore::new has loaded a zero-length data file
C23_Witness ==
    /\ last.op = "new"
    /\ last.kind = "Ok"
    /\ Loaded
    /\ DataText = <<>>
    /\ ds.data.state = <<>>

(***************************************************************************)
(* C24. Write ordering of a mutation: every successful mutation writes the *)
(* data file first and the index file second, once each, and within one    *)
(* process the index write of a mutation comes before the data write of    *)
(* the next.  So the writes of one process are data, index, data, index,   *)
(* ..., and a process between two mutations has written both the same      *)
(* number of times, once per mutation.                                     *)
(***************************************************************************)
\* The files process p wrote, in order
WritesOf(p) == SelectSeq(writes, LAMBDA w : w[1] = p)

Alternating(ws) ==
    \A k \in 1..Len(ws) : ws[k][2] = (IF k % 2 = 1 THEN "data" ELSE "index")

\* The process has written twice per mutation done, and once more while
\* it is between the two writes
WrittenOncePer(pr, ws) ==
    Len(ws) = 2 * pr.done + (IF pr.pc \in {"data_saved", "stopped"} THEN 1 ELSE 0)

C24_WriteOrdering ==
    \A p \in Procs : Alternating(WritesOf(p)) /\ WrittenOncePer(proc[p], WritesOf(p))

\* One process has completed two mutations beside another that has loaded
C24_Witness ==
    /\ last.kind = "Ok"
    /\ last.op \in Mutations
    /\ proc[1].done = 2
    /\ proc[2].pc = "loaded"
    /\ Len(writes) = 4

(***************************************************************************)
(* C25. No index update from a failed pipeline: when the data-file write   *)
(* of a mutation fails, the call returns FileWriteFailed, the index file   *)
(* on disk is as it was, the index in memory is as it was, and no index    *)
(* write of that mutation is pending.                                      *)
(***************************************************************************)
\* The step in which the data-file write of process p fails
WriteFailure(p) == proc[p].pc = "loaded" /\ proc'[p].pc = "failed"

C25_NoIndexFromFailedWrite ==
    [][\A p \in Procs :
          WriteFailure(p) =>
              /\ last'.kind = "FileWriteFailed"
              /\ fs'[DefaultIndexPath] = fs[DefaultIndexPath]
              /\ proc'[p].ds.index = proc[p].ds.index
              /\ writes' = writes]_vars

\* The write of a mutation failed in a store that holds an index entry,
\* with the state in memory changed
C25_Witness ==
    /\ last.kind = "FileWriteFailed"
    /\ \E p \in Procs :
          /\ proc[p].pc = "failed"
          /\ proc[p].ds.index.state # <<>>
          /\ DataOffsets(proc[p].ds.data.state) # proc[p].ds.index.state

(***************************************************************************)
(* C26. Validator: validate_parent(name) returns ReservedKeyword exactly   *)
(* when name equals one of the reserved tokens (-a, --add, -d, --delete,   *)
(* --export, --help, -i, --init, --import, -s, --show, -u, --update,       *)
(* --upsert, -v, --version, --parent-entity, here, |), compared as it is   *)
(* without trimming, and Ok otherwise; validate_link(name) returns         *)
(* ReservedKeyword exactly when name holds a '|'.                          *)
(***************************************************************************)
Dashed(t) == Str(<<"-">>) \o t
ReservedNameSet ==
    {Dashed(Str(<<c>>)) : c \in {"a", "d", "i", "s", "u", "v"}} \cup
    {Dashed(Dashed(t)) : t \in
        {Str(<<"a","d","d">>), Str(<<"d","e","l","e","t","e">>),
         Str(<<"e","x","p","o","r","t">>), Str(<<"h","e","l","p">>),
         Str(<<"i","n","i","t">>), Str(<<"i","m","p","o","r","t">>),
         Str(<<"s","h","o","w">>), Str(<<"u","p","d","a","t","e">>),
         Str(<<"u","p","s","e","r","t">>), Str(<<"v","e","r","s","i","o","n">>),
         Str(<<"p","a","r","e","n","t">>) \o Dashed(Str(<<"e","n","t","i","t","y">>))}} \cup
    {Str(<<"h","e","r","e">>), Str(<<"|">>)}

\* The tokens, each also behind and before a space, and the family's names
NameSamples(f) ==
    ReservedNameSet \cup {t \o Str(<<" ">>) : t \in ReservedNameSet}
        \cup {Str(<<" ">>) \o t : t \in ReservedNameSet}
        \cup ParentArgs(f) \cup LinkArgs(f)

Verdict(rejected) == IF rejected THEN "ReservedKeyword" ELSE "Ok"

C26_Validator ==
    \A n \in NameSamples(family) :
        /\ validate_parent(n) = Verdict(n \in ReservedNameSet)
        /\ validate_link(n) = Verdict(\E i \in 1..Len(n) : n[i] = 124)

\* add_link has rejected the parent here and accepted the parent "here "
C26_Witness ==
    /\ last.op = "add_link"
    /\ last.parent = Str(<<"h","e","r","e">>)
    /\ last.kind = "ReservedKeyword"
    /\ \E i \in 1..Len(ds.data.state) : ds.data.state[i][1] = Str(<<"h","e","r","e"," ">>)

(***************************************************************************)
(* C27. Stale index window: if a mutating process stops after its          *)
(* data-file write and before its index-file write, a ReadDataStore        *)
(* constructed afterwards can read with offsets that do not match the data *)
(* file (wrong parent, wrong links or an error); with no such interruption *)
(* (the one writer is between calls, none of which failed in its write) a  *)
(* reader never finds index offsets that disagree with the data file.      *)
(***************************************************************************)
\* The index file describes the headers of the data file
FilesCoherent(fsys) ==
    Coherent(DataFileHeaders(fsys[DefaultDataPath].bytes), fsys[DefaultIndexPath].bytes)

\* The process is not within a mutation and none of its writes failed
Settled(pr) == pr.pc \in {"idle", "loaded"}

Misread(loaded, l) ==
    /\ loaded.kind = "Ok"
    /\ read_parent_slow(loaded.ds, l.parent).kind = "Ok"
    /\ read_parent_slow(loaded.ds, l.parent).val # l.out

DataFileOf(pr, fsys) == fsys[DefaultDataPath].bytes = SavedBytes(pr.ds.data.state)
IndexFileOf(pr, fsys) ==
    fsys[DefaultIndexPath].bytes = Utf8Encode(IndexFileString(IndexSortState(pr.ds.index.state)))

C28_NotArbitrated ==
    [][\A p \in Procs :
          /\ (proc[p].pc = "loaded" /\ proc'[p].pc = "data_saved") => DataFileOf(proc'[p], fs')
          /\ (proc[p].pc = "data_saved" /\ proc'[p].pc = "loaded")
                => (IndexFileOf(proc'[p], fs') /\ last'.kind = "Ok")]_vars

\* A parent that process pr holds is not in the store loaded from the files
Lost(pr, loaded) ==
    /\ loaded.kind = "Ok"
    /\ \E i \in 1..Len(pr.ds.data.state) :
          \A j \in 1..Len(loaded.ds.data.state) :
              loaded.ds.data.state[j][1] # pr.ds.data.state[i][1]

\* Both processes have completed one mutation; the parent one of them
\* added is gone and the index file does not describe the data file
C28_Witness ==
    /\ \A p \in Procs : proc[p].pc = "loaded" /\ proc[p].done = 1
    /\ ~FilesCoherent(fs)
    /\ \E p \in Procs : Lost(proc[p], DataStoreNew(fs, <<>>))

(***************************************************************************)
(* C29. No empty parent is ever held: after load and after any sequence of *)
(* add_link, upsert_link, remove and import, every parent of the state in  *)
(* memory has at least one link.                                           *)
(***************************************************************************)
C29_NoEmptyParent == \A i \in 1..Len(ds.data.state) : ds.data.state[i][2] # <<>>

\* The last link of the only parent has been removed, and the parent with it
C29_Witness ==
    /\ last.op = "delete"
    /\ last.kind = "Ok"
    /\ last.link # None
    /\ ds.data.state = <<>>
    /\ DataBytes = <<>>

(***************************************************************************)
(* C30. The store stays loadable: after any sequence of successful         *)
(* mutations with arguments the validator accepts, DataStore::new on the   *)
(* data file and the index file succeeds and holds the same parents (by    *)
(* the names the file gives them), links and values.                       *)
(***************************************************************************)
Reloads(made, state) == made.kind = "Ok" /\ made.ds.data.state = Written(state)

C30_StaysLoadable == Mutated => Reloads(DataStoreNew(fs, <<>>), ds.data.state)

(***************************************************************************)
(* C31  Data file and index file are distinct files: for every DataStore   *)
(* and ReadDataStore, constructed with the default location or with a path *)
(* override, the path of the data file differs from the path of the index  *)
(* file, and once a mutation has returned Ok the data file holds the text  *)
(* of the data, not what the index save wrote.                             *)
(***************************************************************************)
\* The store a constructor returned keeps its two files apart
Distinct(made) == made.kind = "Ok" => made.ds.data.path # made.ds.index.path

C31_DistinctFiles ==
    /\ \A path \in PathArgs : Distinct(DataStoreNew(fs, path))
    /\ \A path \in PathArgs, parent \in ParentArgs(family) :
           Distinct(ReadDataStoreNew(fs, path, parent))
    /\ Loaded => ds.data.path # ds.index.path
    /\ Mutated => fs[ds.data.path].bytes = SavedBytes(ds.data.state)

(***************************************************************************)
(* C32  Parent uniqueness: after any sequence of add_link, upsert_link,    *)
(* delete and import, the state in memory and the data file hold at most   *)
(* one parent entry per trimmed parent name, and the index, in memory and  *)
(* in its file, holds at most one entry per parent name.                   *)
(***************************************************************************)
\* No two positions of the sequence of names hold the same trimmed name
UniqueTrimmed(names) ==
    \A i, j \in 1..Len(names) : Trim(names[i]) = Trim(names[j]) => i = j

\* The parent names of a state in memory, in order
ParentNames(state) == [i \in 1..Len(state) |-> state[i][1]]

\* The names the lines of a file give, by the operator that reads one line
NamesOfLines(lines, NameOf(_)) == [i \in 1..Len(lines) |-> NameOf(lines[i])]

\* The parent an index line names: the bytes before its first '|'
IndexLineName(ln) == SplitOnce(ln[2], Pipe)[1]

C32_ParentUniqueness ==
    Mutated =>
        /\ UniqueTrimmed(ParentNames(ds.data.state))
        /\ UniqueTrimmed(NamesOfLines(DataFileHeaders(DataBytes), HeaderName))
        /\ UniqueTrimmed(ParentNames(ds.index.state))
        /\ UniqueTrimmed(NamesOfLines(FileLines(IndexBytes), IndexLineName))

(***************************************************************************)
(* C33  Failed mutations write nothing: whenever DataStore add_link,       *)
(* upsert_link, delete or import returns ReservedKeyword,                  *)
(* ParentEntityNotFound, LinkNotFound, LinkAlreadyExists,                  *)
(* InvalidFileExtension, FileOpenFailed or ParseError, the state in memory *)
(* and both files are as they were before the call.                        *)
(***************************************************************************)
\* The errors a mutation returns before it saves
RefusalKinds ==
    {"ReservedKeyword", "ParentEntityNotFound", "LinkNotFound", "LinkAlreadyExists",
     "InvalidFileExtension", "FileOpenFailed", "ParseError"}

\* This step is a mutation that returned one of those errors
Refused == last'.op \in Mutations /\ last'.kind \in RefusalKinds

C33_FailedMutationsWriteNothing == [][Refused => (ds' = ds /\ fs' = fs)]_vars

\* A store with a parent on disk whose last call, an import of a source
\* that does not parse, was refused
C33_Witness ==
    /\ last.op = "import" /\ last.kind = "ParseError"
    /\ ds.data.state # <<>>
    /\ DataBytes = SavedBytes(ds.data.state)
    /\ DataBytes # <<>>

(***************************************************************************)
(* C34  Index is rebuilt from scratch: after any successful DataStore      *)
(* mutation the index file is coherent with the data file, and the index   *)
(* in memory holds the offsets of the data in memory, whatever entries     *)
(* (stale, extra or missing) the index file held when the DataStore was    *)
(* constructed, provided that index file could be parsed.                  *)
(***************************************************************************)
\* The process has completed a mutation and is between calls
Completed(pr) == pr.pc = "loaded" /\ pr.done > 0

\* The index a store holds in memory is that of its data
IndexOfData(store) == store.index.state = DataOffsets(store.data.state)

C34_IndexRebuilt ==
    Completed(proc[2]) => FilesCoherent(fs) /\ IndexOfData(proc[2].ds)

\* Process 1 loaded an index that did not describe the data and made no
\* call; process 2, the only one to write, has completed a mutation on the
\* same files
C34_Witness ==
    /\ proc[1].pc = "loaded" /\ proc[1].done = 0
    /\ ~IndexOfData(proc[1].ds)
    /\ Len(proc[1].ds.index.state) = 2
    /\ Completed(proc[2])
    /\ \A i \in 1..Len(writes) : writes[i][1] = 2
    /\ last.kind = "Ok" /\ last.op \in Mutations

(***************************************************************************)
(* C35  Import is all-or-nothing with respect to the source's content: if  *)
(* any line of the import source is malformed (a link line before any      *)
(* parent header, or a non-blank line that neither ends with -> nor holds  *)
(* a '|') or names a reserved parent, import returns an error and the      *)
(* state in memory and the files are as they were.                         *)
(***************************************************************************)
\* The text of the source links.tap
SourceText == ReadToString(fs[TapSource]).val

\* The k-th line is a header of a reserved name
ReservedHeader(lines, k) ==
    IsHeader(lines[k]) /\ TrimEndMatches(lines[k], Arrow) \in ReservedNameSet

\* Some line is malformed or names a reserved parent
Flawed(lines) ==
    \E k \in 1..Len(lines) :
        Orphan(lines, k) \/ IsUnknown(lines[k]) \/ ReservedHeader(lines, k)

\* This step is the import of links.tap
ImportsSource == last'.op = "import" /\ last'.path = <<TapSource>>

\* The call of this step returned an error and changed nothing
Rejected == last'.kind # "Ok" /\ ds' = ds /\ fs' = fs

C35_ImportAllOrNothing ==
    [][(ImportsSource /\ Flawed(Lines(SourceText))) => Rejected]_vars

(***************************************************************************)
(* C36  Mutations touch only the named parent: add_link, upsert_link and   *)
(* delete on parent P leave the links of every other parent as they were,  *)
(* and a link name that another parent holds is neither a conflict for     *)
(* add_link on P nor affected by the call.                                 *)
(***************************************************************************)
\* Every entry of `before` that P does not name is an entry of `after`
OthersKept(before, after, P) ==
    \A i \in 1..Len(before) :
        before[i][1] # P => \E k \in 1..Len(after) : after[k] = before[i]

\* The entry that P names holds the link l
NamedHolds(state, P, l) ==
    \E i \in 1..Len(state) :
        state[i][1] = P /\ \E j \in 1..Len(state[i][2]) : Trim(state[i][2][j][1]) = l

\* This step is add_link, upsert_link or delete
TouchesParent == last'.op \in {"add_link", "upsert_link", "delete"}

C36_OnlyNamedParent ==
    [][TouchesParent =>
          /\ OthersKept(ds.data.state, ds'.data.state, last'.parent)
          /\ (last'.op = "add_link" /\ last'.kind = "LinkAlreadyExists")
                 => NamedHolds(ds.data.state, last'.parent, last'.link)]_vars

\* add_link has added to one parent a link name that another parent holds
C36_Witness ==
    /\ last.op = "add_link" /\ last.kind = "Ok"
    /\ NamedHolds(ds.data.state, last.parent, Trim(last.link))
    /\ \E i \in 1..Len(ds.data.state) :
           /\ Trim(ds.data.state[i][1]) # Trim(last.parent)
           /\ NamedHolds(ds.data.state, ds.data.state[i][1], Trim(last.link))

(***************************************************************************)
(* C37  Seeked load never aborts: for every existing data file and every   *)
(* (offset, length), offsets behind the end of the file and length 0       *)
(* included, Data::new returns a state or one of the errors                *)
(* FileSeekFailed, FileReadFailed, FileReadMetadataFailed and ParseError;  *)
(* the subtraction of the offset from the file length never underflows.    *)
(***************************************************************************)
\* What Data::new may return for a seeked load
SeekedOutcomes ==
    {"Ok", "FileSeekFailed", "FileReadFailed", "FileReadMetadataFailed", "ParseError"}

\* The (offset, length) pairs the index of the files gives for its entries
SeekArgs(index_state) ==
    {find_parent_offset_and_length(index_state, index_state[i][1]).val :
        i \in {j \in 1..Len(index_state) :
                  find_parent_offset_and_length(index_state, index_state[j][1]).kind = "Ok"}}

\* Data::new with each of the pairs returns a state or a listed error
SeeksReturn(fsys, x) ==
    x.kind = "Ok" =>
        \A iol \in SeekArgs(x.state) :
            DataNew(fsys, DefaultDataPath, iol).kind \in SeekedOutcomes

C37_SeekedLoadNeverAborts ==
    /\ SeeksReturn(fs, IndexNew(fs, DefaultIndexPath))
    /\ last.op = "read_parent" => last.kind # "Panic"

(***************************************************************************)
(* C38  Offsets are strictly increasing: in every index written by a       *)
(* DataStore mutation the first entry has offset 0 and each later entry's  *)
(* offset is strictly greater than the one before, so the length that      *)
(* find_parent_offset_and_length computes for an entry that is not the     *)
(* last is positive.                                                       *)
(***************************************************************************)
\* The first offset is 0 and the offsets grow
Increasing(index_state) ==
    /\ index_state # <<>> => index_state[1][2] = 0
    /\ \A i \in 1..(Len(index_state) - 1) : index_state[i][2] < index_state[i + 1][2]

\* The length of every entry but the last is computed and positive
PositiveLengths(index_state) ==
    \A i \in 1..(Len(index_state) - 1) :
        /\ OffsetAndLength(index_state, i).kind = "Ok"
        /\ OffsetAndLength(index_state, i).val[2] > 0

\* The index file holds the entries of the index in memory
IndexWrittenAs(index_state) == IndexBytes = Utf8Encode(IndexFileString(index_state))

C38_OffsetsIncreasing ==
    Mutated => /\ IndexWrittenAs(ds.index.state)
               /\ Increasing(ds.index.state)
               /\ PositiveLengths(ds.index.state)

\* An index of three entries, two of them of one trimmed name
C38_Witness ==
    /\ Mutated
    /\ Len(ds.index.state) = 3
    /\ \E i \in 1..2 : ds.index.state[i][1] = ds.index.state[i + 1][1]

(***************************************************************************)
(* C39  The import loop cannot fail: every (parent, link, value) record    *)
(* that Data::parse_file returns is accepted by upsert_link, so the unwrap *)
(* in Data::import never panics.                                           *)
(***************************************************************************)
\* upsert_link accepts each of the records, whatever the state
RecordsAccepted(state, records) ==
    /\ \A k \in 1..Len(records) :
           DataUpsertLink(state, records[k][1], records[k][2], records[k][3]).kind = "Ok"
    /\ ImportFold(state, records).kind = "Ok"

\* The loop of Data::import runs through for what parse_file returned
LoopRuns(state, parsed) ==
    parsed.kind = "Ok" => RecordsAccepted(state, ImportRecords(parsed.val))

C39_ImportLoopCannotFail ==
    /\ LoopRuns(ds.data.state, DataParseFile(SourceText))
    /\ last.op = "import" => last.kind # "Panic"

\* An import has applied a source of two records or more, one of them
\* from a line with two '|'
C39_Witness ==
    /\ last.op = "import" /\ last.kind = "Ok" /\ last.path = <<TapSource>>
    /\ Len(ImportRecords(DataParseFile(SourceText).val)) >= 2
    /\ \E k \in 1..Len(Lines(SourceText)) : Lines(SourceText)[k] = Str(<<" ","a","|","b","|","1">>)

====
